---- MODULE Spec2Model ----
(***************************************************************************)
(* Model of scripts/generate_charts.py: load_data, the analyzers main()    *)
(* runs over the loaded branch and stop lists, the statistics of the       *)
(* charts and the summary.  Each part has a specification of its own       *)
(* over the same variables.                                                *)
(*                                                                         *)
(* Coordinates.  In the loader a coordinate is in hundredths of a degree.  *)
(* In the distance analyses every point lies on one meridian (one lon      *)
(* value), and a latitude is written as its arc length in metres along     *)
(* that meridian from a base parallel.  For two points of equal longitude  *)
(* the haversine formula reduces to R * |phi2 - phi1|, the difference of   *)
(* the two arc lengths, so distances are exact integers here and the       *)
(* inclusive radius boundaries (d = 400, 500, 600) are reachable inputs.   *)
(***************************************************************************)
EXTENDS Integers, Sequences, FiniteSets, TLC

VARIABLES
    branches,       \* list of {bank, lat, lon}, as load_data returns it
    stops,          \* list of {id, lat, lon, hub, routes}, as load_data returns it
    threshold,      \* the radius argument of compute_accessibility
    accessibility,  \* result of compute_accessibility
    gaps,           \* result of find_competitor_gaps
    overlap_data,   \* result of compute_competitive_overlap
    done,           \* the steps of main that have run
    raw_branches,   \* rows of combined_branches.csv
    raw_stops,      \* entries of stops.json
    buses,          \* entries of busDetails.json
    error,          \* the exception that ended the run, or "none"
    loaded,         \* the branch and stop lists as load_data returned them
    branch_counts,  \* result of branches_by_bank
    bank_zones,     \* result of zone_coverage_analysis
    hub_data,       \* result of compute_hub_proximity
    bank_avg,       \* chart 4: mean nearby stops per bank
    bank_medians,   \* chart 10: median nearest-stop distance per bank
    head_to_head,   \* chart 12: the values of the two bar groups
    summary,        \* the summary statistics main prints
    area_counts,    \* the home bank's Baku-area and regional counts main prints
    distance,       \* the outcomes of a group of haversine calls
    fetch           \* the state of one run of fetch_all_bus_details

\* The variables the three analyzers above do not touch.
added_vars ==
    <<raw_branches, raw_stops, buses, error, loaded, branch_counts, bank_zones,
      hub_data, bank_avg, bank_medians, head_to_head, summary, area_counts,
      distance, fetch>>

vars ==
    <<branches, stops, threshold, accessibility, gaps, overlap_data, done, added_vars>>

\* The variables of the distance calls and of the bus-detail fetch.
side_vars == <<distance, fetch>>

\* fetch_all_bus_details has not been called.
NoFetch ==
    [pc |-> "idle", list_fetched |-> FALSE, bus_list |-> <<>>, requested |-> <<>>,
     responses |-> <<>>, all_bus_details |-> <<>>, written |-> FALSE, file |-> <<>>,
     returned |-> "nothing", value |-> <<>>]

\* A mapping with no key yet ({}, Counter(), defaultdict(...)).
EmptyMap == [k \in {} |-> 0]

\* The state of everything a specification does not load or compute at its start.
InitRest ==
    /\ raw_branches = <<>>
    /\ raw_stops = <<>>
    /\ buses = <<>>
    /\ error = "none"
    /\ loaded = [branches |-> branches, stops |-> stops]
    /\ branch_counts = <<>>
    /\ bank_zones = EmptyMap
    /\ hub_data = <<>>
    /\ bank_avg = EmptyMap
    /\ bank_medians = EmptyMap
    /\ head_to_head = <<>>
    /\ summary = <<>>
    /\ area_counts = <<>>
    /\ distance = <<>>
    /\ fetch = NoFetch

----------------------------------------------------------------------------
(* Program constants *)

BOB == "Bank of Baku"
KAPITAL == "Kapital Bank"
ABB == "ABB"

\* Variant of MEDIUM_DISTANCE: the value of CLOSE_DISTANCE.
CLOSE_DISTANCE == 300

WALKING_DISTANCE == 400
MEDIUM_DISTANCE == 600

\* float('inf'): the top element of the distance order.  It exceeds every
\* distance haversine yields on the modelled points.
inf == 1000000000

\* The meridian all points of the distance analyses lie on, 49.85 E.  A
\* longitude is written in hundredths of a degree.
LON == 4985

----------------------------------------------------------------------------
(* Bounds of the input lists *)

MaxAccBranches == 2
MaxAccStops == 2
MaxFilterBranches == 3
MaxFilterStops == 3
MaxOrderBranches == 3
MaxOrderStops == 3
MaxOverlapBranches == 4

----------------------------------------------------------------------------
(* Helpers *)

Abs(x) == IF x < 0 THEN -x ELSE x

SeqsUpTo(S, n) == UNION {[1..k -> S] : k \in 0..n}

\* def haversine(lat1, lon1, lat2, lon2), for two points of one meridian:
\* dlambda = 0, a = sin^2(dphi/2), R * 2 * atan2(sqrt(a), sqrt(1-a)) = R * |dphi|.
haversine(lat1, lon1, lat2, lon2) == Abs(lat2 - lat1)

----------------------------------------------------------------------------
(* compute_accessibility *)

\* Variant: the nearest distance starts at 0 instead of float('inf').
AccStart_Zero == [nearby |-> 0, total_routes |-> 0, nearest_stop_dist |-> 0]

\* nearby = 0; total_routes = 0; nearest_stop_dist = float('inf')
AccStart == [nearby |-> 0, total_routes |-> 0, nearest_stop_dist |-> inf]

\* Variant: the nearest distance is overwritten by every stop (no "if d <").
AccStep_LastDist(a, br, s, radius) ==
    LET d == haversine(br.lat, br.lon, s.lat, s.lon)
    IN  [nearest_stop_dist |-> d,
         nearby |-> IF d <= radius THEN a.nearby + 1 ELSE a.nearby,
         total_routes |-> IF d <= radius THEN a.total_routes + s.routes ELSE a.total_routes]

\* Variant: the radius test is strict (d < threshold).
AccStep_Strict(a, br, s, radius) ==
    LET d == haversine(br.lat, br.lon, s.lat, s.lon)
    IN  [nearest_stop_dist |-> IF d < a.nearest_stop_dist THEN d ELSE a.nearest_stop_dist,
         nearby |-> IF d < radius THEN a.nearby + 1 ELSE a.nearby,
         total_routes |-> IF d < radius THEN a.total_routes + s.routes ELSE a.total_routes]

\* Variant: the radius test is an "elif" of the nearest-distance test.
AccStep_Elif(a, br, s, radius) ==
    LET d == haversine(br.lat, br.lon, s.lat, s.lon)
        closer == d < a.nearest_stop_dist
    IN  [nearest_stop_dist |-> IF closer THEN d ELSE a.nearest_stop_dist,
         nearby |-> IF ~closer /\ d <= radius THEN a.nearby + 1 ELSE a.nearby,
         total_routes |-> IF ~closer /\ d <= radius THEN a.total_routes + s.routes
                          ELSE a.total_routes]

\* Variant: the operands of the radius test are swapped (threshold <= d).
AccStep_Swapped(a, br, s, radius) ==
    LET d == haversine(br.lat, br.lon, s.lat, s.lon)
    IN  [nearest_stop_dist |-> IF d < a.nearest_stop_dist THEN d ELSE a.nearest_stop_dist,
         nearby |-> IF radius <= d THEN a.nearby + 1 ELSE a.nearby,
         total_routes |-> IF radius <= d THEN a.total_routes + s.routes ELSE a.total_routes]

\* Variant: the radius test reads nearest_stop_dist as it was before this stop.
AccStep_StaleNearest(a, br, s, radius) ==
    LET d == haversine(br.lat, br.lon, s.lat, s.lon)
        within == a.nearest_stop_dist <= radius
    IN  [nearest_stop_dist |-> IF d < a.nearest_stop_dist THEN d ELSE a.nearest_stop_dist,
         nearby |-> IF within THEN a.nearby + 1 ELSE a.nearby,
         total_routes |-> IF within THEN a.total_routes + s.routes ELSE a.total_routes]

\* One iteration of "for s in stops" for branch br.
AccStep(a, br, s, radius) ==
    LET d == haversine(br.lat, br.lon, s.lat, s.lon)
    IN  [nearest_stop_dist |-> IF d < a.nearest_stop_dist THEN d ELSE a.nearest_stop_dist,
         nearby |-> IF d <= radius THEN a.nearby + 1 ELSE a.nearby,
         total_routes |-> IF d <= radius THEN a.total_routes + s.routes ELSE a.total_routes]

\* The accumulators after the first k stops have been scanned.
RECURSIVE AccScan(_, _, _, _)
AccScan(br, ss, radius, k) ==
    IF k = 0 THEN AccStart
    ELSE AccStep(AccScan(br, ss, radius, k - 1), br, ss[k], radius)

\* The record appended for branch br.
AccRecord(br, a) ==
    [bank |-> br.bank, lat |-> br.lat, lon |-> br.lon,
     nearby_stops |-> a.nearby,
     nearby_routes |-> a.total_routes,
     nearest_stop_m |-> a.nearest_stop_dist]

\* Variant: each record is inserted at the front of results.
compute_accessibility_Prepend(bs, ss, radius) ==
    [i \in 1..Len(bs) |->
        AccRecord(bs[Len(bs) + 1 - i], AccScan(bs[Len(bs) + 1 - i], ss, radius, Len(ss)))]

compute_accessibility(bs, ss, radius) ==
    [i \in 1..Len(bs) |-> AccRecord(bs[i], AccScan(bs[i], ss, radius, Len(ss)))]

----------------------------------------------------------------------------
(* Inputs of the accessibility analysis *)

AccBanks == {BOB, KAPITAL}
AccBranchLats == {0, 600}
AccStopLats == {0, 400, 1300}
AccRoutes == {0, 5}
Radii == {-100, 0, WALKING_DISTANCE, MEDIUM_DISTANCE}

BranchRecords(banks, lats) == [bank : banks, lat : lats, lon : {LON}]

StopKinds(lats, routes, hubs) == [lat : lats, lon : {LON}, hub : hubs, routes : routes]

\* Stop ids are unique: the i-th loaded stop has id i.
WithIds(raw) ==
    [i \in 1..Len(raw) |->
        [id |-> i, lat |-> raw[i].lat, lon |-> raw[i].lon,
         hub |-> raw[i].hub, routes |-> raw[i].routes]]

StopLists(kinds, n) == {WithIds(raw) : raw \in SeqsUpTo(kinds, n)}

InitAccessibility ==
    /\ branches \in SeqsUpTo(BranchRecords(AccBanks, AccBranchLats), MaxAccBranches)
    /\ stops \in StopLists(StopKinds(AccStopLats, AccRoutes, {FALSE}), MaxAccStops)
    /\ threshold = WALKING_DISTANCE
    /\ accessibility = <<>>
    /\ gaps = <<>>
    /\ overlap_data = <<>>
    /\ done = {}
    /\ InitRest

\* accessibility = compute_accessibility(branches, stops, threshold=t)
ComputeAccessibility(t) ==
    /\ "accessibility" \notin done
    /\ threshold' = t
    /\ accessibility' = compute_accessibility(branches, stops, t)
    /\ done' = done \cup {"accessibility"}
    /\ UNCHANGED <<branches, stops, gaps, overlap_data>>
    /\ UNCHANGED added_vars

NextAccessibility == \E t \in Radii : ComputeAccessibility(t)

SpecAccessibility == InitAccessibility /\ [][NextAccessibility]_vars

----------------------------------------------------------------------------
(* Properties of compute_accessibility *)

AccDone == "accessibility" \in done

\* Distance from branch i to stop k, taken from the inputs.
BranchStopDist(i, k) ==
    haversine(branches[i].lat, branches[i].lon, stops[k].lat, stops[k].lon)

\* The stops within the radius of branch i, as a set of positions.
StopsWithin(i, radius) == {k \in DOMAIN stops : BranchStopDist(i, k) <= radius}

RECURSIVE SumRoutesOver(_)
SumRoutesOver(K) ==
    IF K = {} THEN 0
    ELSE LET k == CHOOSE x \in K : TRUE IN stops[k].routes + SumRoutesOver(K \ {k})

\* C3: with a non-empty stop list, every branch's nearest_stop_m is the minimum
\* of its distances to the stops: no stop is closer, and some stop is at exactly
\* that distance.
C3_NearestIsMinimum ==
    (AccDone /\ stops # <<>>) =>
        \A i \in DOMAIN branches :
            /\ \A k \in DOMAIN stops : accessibility[i].nearest_stop_m <= BranchStopDist(i, k)
            /\ \E k \in DOMAIN stops : accessibility[i].nearest_stop_m = BranchStopDist(i, k)

\* A branch whose first stop is strictly nearer than its second.
C3_Witness ==
    /\ AccDone
    /\ Len(stops) = 2
    /\ \E i \in DOMAIN branches :
        /\ BranchStopDist(i, 1) < BranchStopDist(i, 2)
        /\ accessibility[i].nearest_stop_m = BranchStopDist(i, 1)

\* C4: nearby_stops is the number of stops at distance <= radius (boundary
\* included) and nearby_routes the sum of the route counts of exactly those stops.
C4_NearbyCounts ==
    AccDone =>
        \A i \in DOMAIN branches :
            /\ accessibility[i].nearby_stops = Cardinality(StopsWithin(i, threshold))
            /\ accessibility[i].nearby_routes = SumRoutesOver(StopsWithin(i, threshold))

\* One stop exactly at the radius is counted, one farther stop with routes is not.
C4_Witness ==
    /\ AccDone
    /\ threshold > 0
    /\ \E i \in DOMAIN branches : \E k1, k2 \in DOMAIN stops :
        /\ BranchStopDist(i, k1) = threshold
        /\ BranchStopDist(i, k2) > threshold
        /\ stops[k1].routes > 0
        /\ stops[k2].routes > 0
        /\ accessibility[i].nearby_stops = 1
        /\ accessibility[i].nearby_routes = stops[k1].routes

Permuted(seq, p) == [k \in DOMAIN seq |-> seq[p[k]]]

\* C5: every permutation of the stop list yields the same nearby_stops,
\* nearby_routes and nearest_stop_m for each branch.
C5_StopOrderIndependent ==
    AccDone =>
        \A p \in Permutations(DOMAIN stops) :
            LET other == compute_accessibility(branches, Permuted(stops, p), threshold)
            IN  \A i \in DOMAIN branches :
                    /\ other[i].nearby_stops = accessibility[i].nearby_stops
                    /\ other[i].nearby_routes = accessibility[i].nearby_routes
                    /\ other[i].nearest_stop_m = accessibility[i].nearest_stop_m

\* Two stops at different distances with different route counts, both in radius.
C5_Witness ==
    /\ AccDone
    /\ Len(stops) = 2
    /\ stops[1].routes # stops[2].routes
    /\ \E i \in DOMAIN branches :
        /\ BranchStopDist(i, 1) # BranchStopDist(i, 2)
        /\ accessibility[i].nearby_stops = 2

\* Every distance haversine can yield between a modelled branch and stop.
AccDistances ==
    {haversine(a, LON, b, LON) : a \in AccBranchLats, b \in AccStopLats}

\* C6: with an empty stop list there is one record per branch, its nearest-stop
\* distance is positive infinity (no finite distance, in particular not 0) and
\* both counts are 0.
C6_EmptyStops ==
    (AccDone /\ stops = <<>>) =>
        /\ Len(accessibility) = Len(branches)
        /\ \A i \in DOMAIN branches :
            /\ accessibility[i].nearest_stop_m = inf
            /\ accessibility[i].nearest_stop_m \notin AccDistances
            /\ accessibility[i].nearest_stop_m # 0
            /\ accessibility[i].nearby_stops = 0
            /\ accessibility[i].nearby_routes = 0

C6_Witness ==
    /\ AccDone
    /\ stops = <<>>
    /\ Len(branches) = 2
    /\ accessibility[2].nearest_stop_m = inf

\* C7: for radii r1 <= r2 over the same branches and stops, each branch's
\* nearby_stops and nearby_routes at r2 are >= those at r1.
C7_MonotoneInRadius ==
    AccDone =>
        \A r \in Radii :
            LET other == compute_accessibility(branches, stops, r)
            IN  \A i \in DOMAIN branches :
                    /\ r >= threshold =>
                        /\ other[i].nearby_stops >= accessibility[i].nearby_stops
                        /\ other[i].nearby_routes >= accessibility[i].nearby_routes
                    /\ r <= threshold =>
                        /\ other[i].nearby_stops <= accessibility[i].nearby_stops
                        /\ other[i].nearby_routes <= accessibility[i].nearby_routes

\* A branch with one stop in the 400 m radius and strictly more in the 600 m one.
C7_Witness ==
    /\ AccDone
    /\ threshold = WALKING_DISTANCE
    /\ \E i \in DOMAIN branches :
        /\ accessibility[i].nearby_stops = 1
        /\ compute_accessibility(branches, stops, MEDIUM_DISTANCE)[i].nearby_stops = 2
        /\ compute_accessibility(branches, stops, MEDIUM_DISTANCE)[i].nearby_routes
             > accessibility[i].nearby_routes

\* C8: one record per input branch, in input order, each carrying its branch's
\* own owner and coordinates.
C8_OneRecordPerBranch ==
    AccDone =>
        /\ Len(accessibility) = Len(branches)
        /\ \A i \in DOMAIN branches :
            /\ accessibility[i].bank = branches[i].bank
            /\ accessibility[i].lat = branches[i].lat
            /\ accessibility[i].lon = branches[i].lon

\* Two branches at one location with different owners, and stops to scan.
C8_Witness ==
    /\ AccDone
    /\ Len(branches) = 2
    /\ stops # <<>>
    /\ branches[1].lat = branches[2].lat
    /\ branches[1].bank # branches[2].bank
    /\ accessibility[1].bank = branches[1].bank
    /\ accessibility[2].bank = branches[2].bank

----------------------------------------------------------------------------
(* find_competitor_gaps *)

\* Variant: every branch is taken as a home branch.
bob_branches_All(bs, bob_name) == bs

\* [b for b in branches if b['bank'] == bob_name]
bob_branches(bs, bob_name) == LET Home(b) == b.bank = bob_name IN SelectSeq(bs, Home)

\* Variant: the home branches are left among the competitors.
competitor_branches_All(bs, bob_name) == bs

\* [b for b in branches if b['bank'] != bob_name]
competitor_branches(bs, bob_name) == LET Other(b) == b.bank # bob_name IN SelectSeq(bs, Other)

\* Variant: only stops with more than 10 routes count as high-traffic.
high_traffic_Strict(ss) == LET Busy(s) == s.routes > 10 IN SelectSeq(ss, Busy)

\* [s for s in stops if s['routes'] >= 10]
high_traffic(ss) == LET Busy(s) == s.routes >= 10 IN SelectSeq(ss, Busy)

\* any(haversine(s, b) <= MEDIUM_DISTANCE for b in bob_branches)
bob_nearby(s, bobs) ==
    \E i \in DOMAIN bobs :
        haversine(s.lat, s.lon, bobs[i].lat, bobs[i].lon) <= MEDIUM_DISTANCE

\* sum(1 for b in competitor_branches if haversine(s, b) <= MEDIUM_DISTANCE)
comp_nearby(s, comps) ==
    LET Near(b) == haversine(s.lat, s.lon, b.lat, b.lon) <= MEDIUM_DISTANCE
    IN  Len(SelectSeq(comps, Near))

GapRecord(s, comp) ==
    [stop_id |-> s.id, lat |-> s.lat, lon |-> s.lon, routes |-> s.routes,
     competitors_nearby |-> comp, hub |-> s.hub]

\* The gaps list after the first k high-traffic stops have been examined.
RECURSIVE GapScan(_, _, _, _)
GapScan(ht, bobs, comps, k) ==
    IF k = 0 THEN <<>>
    ELSE LET before == GapScan(ht, bobs, comps, k - 1)
             s == ht[k]
             comp == comp_nearby(s, comps)
         IN  IF ~bob_nearby(s, bobs) /\ comp > 0
             THEN Append(before, GapRecord(s, comp))
             ELSE before

\* key=lambda x: (-x['routes'], -x['competitors_nearby'])
SortKey(g) == <<-g.routes, -g.competitors_nearby>>

\* Python's order on 2-tuples.
KeyLess(a, b) == a[1] < b[1] \/ (a[1] = b[1] /\ a[2] < b[2])

InsertAt(seq, pos, x) ==
    [j \in 1..(Len(seq) + 1) |->
        IF j < pos THEN seq[j] ELSE IF j = pos THEN x ELSE seq[j - 1]]

\* Variant: x goes before the elements whose key equals its own.
SortedInsert_BeforeEqual(seq, x) ==
    LET later == {j \in DOMAIN seq : ~KeyLess(SortKey(seq[j]), SortKey(x))}
        pos == IF later = {} THEN Len(seq) + 1
               ELSE CHOOSE j \in later : \A m \in later : j <= m
    IN  InsertAt(seq, pos, x)

\* x goes before the first element whose key is greater than its own, so after
\* every element of an equal key: sorted() is stable.
SortedInsert(seq, x) ==
    LET later == {j \in DOMAIN seq : KeyLess(SortKey(x), SortKey(seq[j]))}
        pos == IF later = {} THEN Len(seq) + 1
               ELSE CHOOSE j \in later : \A m \in later : j <= m
    IN  InsertAt(seq, pos, x)

\* sorted(seq, key=SortKey)
RECURSIVE sorted(_, _)
sorted(seq, k) ==
    IF k = 0 THEN <<>> ELSE SortedInsert(sorted(seq, k - 1), seq[k])

find_competitor_gaps(bs, ss, bob_name) ==
    LET ht == high_traffic(ss)
        found == GapScan(ht, bob_branches(bs, bob_name),
                         competitor_branches(bs, bob_name), Len(ht))
    IN  sorted(found, Len(found))

----------------------------------------------------------------------------
(* Inputs of the gap analysis *)

GapBanks == {BOB, KAPITAL}
GapBranchLats == {0, 600}
GapStopLats == {0, 700}
FilterRoutes == {9, 10, 30}
OrderRoutes == {30, 50}

InitGaps(routes, maxBranches, maxStops) ==
    /\ branches \in SeqsUpTo(BranchRecords(GapBanks, GapBranchLats), maxBranches)
    /\ stops \in StopLists(StopKinds(GapStopLats, routes, {FALSE}), maxStops)
    /\ threshold = WALKING_DISTANCE
    /\ accessibility = <<>>
    /\ gaps = <<>>
    /\ overlap_data = <<>>
    /\ done = {}
    /\ InitRest

InitGapFilter == InitGaps(FilterRoutes, MaxFilterBranches, MaxFilterStops)

InitGapOrder == InitGaps(OrderRoutes, MaxOrderBranches, MaxOrderStops)

\* gaps = find_competitor_gaps(branches, stops)
FindCompetitorGaps ==
    /\ "gaps" \notin done
    /\ gaps' = find_competitor_gaps(branches, stops, BOB)
    /\ done' = done \cup {"gaps"}
    /\ UNCHANGED <<branches, stops, threshold, accessibility, overlap_data>>
    /\ UNCHANGED added_vars

NextGaps == FindCompetitorGaps

SpecGapFilter == InitGapFilter /\ [][NextGaps]_vars

SpecGapOrder == InitGapOrder /\ [][NextGaps]_vars

----------------------------------------------------------------------------
(* Properties of find_competitor_gaps *)

GapsDone == "gaps" \in done

StopBranchDist(k, i) ==
    haversine(stops[k].lat, stops[k].lon, branches[i].lat, branches[i].lon)

\* The home-owner branches and the competitor branches within 600 m of stop k.
HomeWithin600(k) ==
    {i \in DOMAIN branches : branches[i].bank = BOB /\ StopBranchDist(k, i) <= 600}

CompetitorsWithin600(k) ==
    {i \in DOMAIN branches : branches[i].bank # BOB /\ StopBranchDist(k, i) <= 600}

PassesGapFilters(k) ==
    /\ stops[k].routes >= 10
    /\ HomeWithin600(k) = {}
    /\ CompetitorsWithin600(k) # {}

\* C1: a stop is in the result exactly when it has >= 10 routes, no home branch
\* within 600 m (inclusive) and at least one competitor branch within 600 m; it
\* is there once, and competitors_nearby is the number of competitor branches
\* within 600 m, hence > 0.
C1_GapsAreExactlyTheFiltered ==
    GapsDone =>
        /\ \A k \in DOMAIN stops :
            Cardinality({j \in DOMAIN gaps : gaps[j].stop_id = stops[k].id})
                = IF PassesGapFilters(k) THEN 1 ELSE 0
        /\ \A j \in DOMAIN gaps :
            \E k \in DOMAIN stops :
                /\ gaps[j].stop_id = stops[k].id
                /\ gaps[j].competitors_nearby = Cardinality(CompetitorsWithin600(k))
                /\ gaps[j].competitors_nearby > 0
                /\ gaps[j].routes = stops[k].routes

\* A stop of exactly 10 routes whose only home branch is 700 m away is the one
\* gap; a stop of 9 routes at the same place is left out.
C1_Witness ==
    /\ GapsDone
    /\ Len(stops) = 2
    /\ Len(gaps) = 1
    /\ \E k \in DOMAIN stops :
        /\ stops[k].routes = 10
        /\ gaps[1].stop_id = stops[k].id
        /\ \E i \in DOMAIN branches :
            branches[i].bank = BOB /\ StopBranchDist(k, i) = 700
    /\ \E k \in DOMAIN stops : stops[k].routes = 9 /\ CompetitorsWithin600(k) # {}

\* Position of the stop with the given id in the input stop list.
InputPos(id) == CHOOSE k \in DOMAIN stops : stops[k].id = id

GapKeys == [j \in DOMAIN gaps |-> <<gaps[j].routes, gaps[j].competitors_nearby>>]

\* C2: the result is ordered by routes descending, then competitors_nearby
\* descending, and gaps equal on both keep their input order; gaps with keys
\* (50,1), (30,3), (30,1) come out in exactly that order.
C2_GapOrder ==
    GapsDone =>
        /\ \A j \in 1..(Len(gaps) - 1) :
            \/ gaps[j].routes > gaps[j + 1].routes
            \/ /\ gaps[j].routes = gaps[j + 1].routes
               /\ gaps[j].competitors_nearby > gaps[j + 1].competitors_nearby
            \/ /\ gaps[j].routes = gaps[j + 1].routes
               /\ gaps[j].competitors_nearby = gaps[j + 1].competitors_nearby
               /\ InputPos(gaps[j].stop_id) < InputPos(gaps[j + 1].stop_id)
        /\ (/\ Len(gaps) = 3
            /\ {GapKeys[j] : j \in DOMAIN gaps} = {<<50, 1>>, <<30, 3>>, <<30, 1>>})
            => GapKeys = << <<50, 1>>, <<30, 3>>, <<30, 1>> >>

\* The three gaps of the example, given in the input in the reverse order.
C2_Witness ==
    /\ GapsDone
    /\ Len(stops) = 3
    /\ GapKeys = << <<50, 1>>, <<30, 3>>, <<30, 1>> >>
    /\ <<gaps[1].stop_id, gaps[2].stop_id, gaps[3].stop_id>>
         = <<stops[3].id, stops[2].id, stops[1].id>>

----------------------------------------------------------------------------
(* compute_competitive_overlap *)

\* defaultdict(int)
EmptyCounts == [b \in {} |-> 0]

\* nearby_competitors[key] += 1 on a defaultdict(int)
Increment(m, key) ==
    IF key \in DOMAIN m THEN [m EXCEPT ![key] = @ + 1] ELSE m @@ (key :> 1)

\* Variant: the counter is touched for every competitor branch and incremented
\* only in radius (nearby_competitors[bank] += d <= 500), leaving zero entries.
OverlapStep_AlwaysTouch(m, bb, o) ==
    LET d == haversine(bb.lat, bb.lon, o.lat, o.lon)
        touched == IF o.bank \in DOMAIN m THEN m ELSE m @@ (o.bank :> 0)
    IN  IF d <= 500 THEN [touched EXCEPT ![o.bank] = @ + 1] ELSE touched

\* One iteration of "for o in others" for home branch bb.
OverlapStep(m, bb, o) ==
    LET d == haversine(bb.lat, bb.lon, o.lat, o.lon)
    IN  IF d <= 500 THEN Increment(m, o.bank) ELSE m

\* nearby_competitors after the first k other branches have been scanned.
RECURSIVE OverlapScan(_, _, _)
OverlapScan(bb, others, k) ==
    IF k = 0 THEN EmptyCounts
    ELSE OverlapStep(OverlapScan(bb, others, k - 1), bb, others[k])

\* sum(nearby_competitors.values())
RECURSIVE SumValues(_)
SumValues(m) ==
    IF DOMAIN m = {} THEN 0
    ELSE LET key == CHOOSE x \in DOMAIN m : TRUE
         IN  m[key] + SumValues([x \in DOMAIN m \ {key} |-> m[x]])

\* Variant: total_competitors is len(nearby_competitors), the number of banks.
OverlapRecord_CountBanks(bb, m) ==
    [lat |-> bb.lat, lon |-> bb.lon,
     total_competitors |-> Cardinality(DOMAIN m),
     competitor_banks |-> m]

\* The record appended for home branch bb.
OverlapRecord(bb, m) ==
    [lat |-> bb.lat, lon |-> bb.lon,
     total_competitors |-> SumValues(m),
     competitor_banks |-> m]

compute_competitive_overlap(bs, bob_name) ==
    LET bobs == bob_branches(bs, bob_name)
        others == competitor_branches(bs, bob_name)
    IN  [j \in 1..Len(bobs) |->
            OverlapRecord(bobs[j], OverlapScan(bobs[j], others, Len(others)))]

----------------------------------------------------------------------------
(* Inputs of the overlap analysis *)

OverlapBanks == {BOB, KAPITAL, ABB}
OverlapLats == {0, 500, 1100}

InitOverlap ==
    /\ branches \in SeqsUpTo(BranchRecords(OverlapBanks, OverlapLats), MaxOverlapBranches)
    /\ stops = <<>>
    /\ threshold = WALKING_DISTANCE
    /\ accessibility = <<>>
    /\ gaps = <<>>
    /\ overlap_data = <<>>
    /\ done = {}
    /\ InitRest

\* overlap_data = compute_competitive_overlap(branches)
ComputeCompetitiveOverlap ==
    /\ "overlap" \notin done
    /\ overlap_data' = compute_competitive_overlap(branches, BOB)
    /\ done' = done \cup {"overlap"}
    /\ UNCHANGED <<branches, stops, threshold, accessibility, gaps>>
    /\ UNCHANGED added_vars

NextOverlap == ComputeCompetitiveOverlap

SpecOverlap == InitOverlap /\ [][NextOverlap]_vars

----------------------------------------------------------------------------
(* Properties of compute_competitive_overlap *)

OverlapDone == "overlap" \in done

\* Positions of the home-owner branches in the input list.
HomePositions == {i \in DOMAIN branches : branches[i].bank = BOB}

\* Position in the input list of the j-th home-owner branch.
HomePos(j) ==
    CHOOSE i \in HomePositions : Cardinality({h \in HomePositions : h <= i}) = j

BranchDist(i, k) ==
    haversine(branches[i].lat, branches[i].lon, branches[k].lat, branches[k].lon)

\* The non-home branches within 500 m of branch i, all or of one owner.
OthersWithin500(i) ==
    {k \in DOMAIN branches : branches[k].bank # BOB /\ BranchDist(i, k) <= 500}

OwnedWithin500(i, owner) ==
    {k \in DOMAIN branches : branches[k].bank = owner /\ BranchDist(i, k) <= 500}

RECURSIVE MapTotal(_, _)
MapTotal(m, keys) ==
    IF keys = {} THEN 0
    ELSE LET key == CHOOSE x \in keys : TRUE IN m[key] + MapTotal(m, keys \ {key})

\* C9: for every home branch, total_competitors is the sum of the values of
\* competitor_banks and is the number of non-home branches within 500 m
\* (inclusive); each value is the number of in-radius branches of that owner.
C9_OverlapCompleteness ==
    OverlapDone =>
        \A j \in 1..Cardinality(HomePositions) :
            /\ j \in DOMAIN overlap_data
            /\ LET rec == overlap_data[j]
                   counts == rec.competitor_banks
               IN  /\ rec.total_competitors = MapTotal(counts, DOMAIN counts)
                   /\ rec.total_competitors = Cardinality(OthersWithin500(HomePos(j)))
                   /\ \A owner \in DOMAIN counts :
                        counts[owner] = Cardinality(OwnedWithin500(HomePos(j), owner))

\* A home branch with two branches of one competitor in radius, one of them at
\* exactly 500 m, and a branch of another competitor out of radius.
C9_Witness ==
    /\ OverlapDone
    /\ Len(overlap_data) = 1
    /\ overlap_data[1].total_competitors = 2
    /\ DOMAIN overlap_data[1].competitor_banks = {KAPITAL}
    /\ \E k \in DOMAIN branches :
        branches[k].bank = KAPITAL /\ BranchDist(HomePos(1), k) = 500
    /\ \E k \in DOMAIN branches :
        branches[k].bank = ABB /\ BranchDist(HomePos(1), k) > 500

\* C10: one record per home branch, in input order; competitor_banks holds
\* exactly the owners with a branch in radius, each with a count > 0.
C10_NoZeroEntries ==
    OverlapDone =>
        /\ Len(overlap_data) = Cardinality(HomePositions)
        /\ \A j \in DOMAIN overlap_data :
            /\ overlap_data[j].lat = branches[HomePos(j)].lat
            /\ overlap_data[j].lon = branches[HomePos(j)].lon
            /\ \A owner \in DOMAIN overlap_data[j].competitor_banks :
                overlap_data[j].competitor_banks[owner] > 0
            /\ \A owner \in OverlapBanks :
                OwnedWithin500(HomePos(j), owner) \ HomePositions = {}
                    => owner \notin DOMAIN overlap_data[j].competitor_banks

\* Two home branches at different places with a competitor between them in the
\* input; the competitor is in the radius of the first and not of the second.
C10_Witness ==
    /\ OverlapDone
    /\ Len(overlap_data) = 2
    /\ overlap_data[1].lat # overlap_data[2].lat
    /\ HomePos(2) > HomePos(1) + 1
    /\ DOMAIN overlap_data[1].competitor_banks = {ABB}
    /\ DOMAIN overlap_data[2].competitor_banks = {}

----------------------------------------------------------------------------
(* classify_location and zone_coverage_analysis *)

\* The two boxes, in the units of the model's points.  A latitude is the arc
\* length in metres north of the parallel 40.35 N, the southern edge of
\* BAKU_CENTER, so lat_min of BAKU_CENTER is 0; a longitude is in hundredths of
\* a degree.  The other latitude bounds (40.45, 40.30 and 40.65 N, at
\* 11119.49, -5559.75 and 33358.48 m) fall between two whole metres: each is
\* written as the last whole metre inside the box, which decides "<=" the
\* same way for every point at a whole metre.
BAKU_CENTER == [lat_min |-> 0, lat_max |-> 11119, lon_min |-> 4978, lon_max |-> 4998]

BAKU_GREATER == [lat_min |-> -5559, lat_max |-> 33358, lon_min |-> 4965, lon_max |-> 5020]

InBox(box, lat, lon) ==
    /\ box.lat_min <= lat /\ lat <= box.lat_max
    /\ box.lon_min <= lon /\ lon <= box.lon_max

\* Variant: the containing box is tested first.
classify_location_GreaterFirst(lat, lon) ==
    IF InBox(BAKU_GREATER, lat, lon) THEN "Greater Baku"
    ELSE IF InBox(BAKU_CENTER, lat, lon) THEN "Baku Center"
    ELSE "Regional"

classify_location(lat, lon) ==
    IF InBox(BAKU_CENTER, lat, lon) THEN "Baku Center"
    ELSE IF InBox(BAKU_GREATER, lat, lon) THEN "Greater Baku"
    ELSE "Regional"

\* m[key] of a Counter or of a get(key, 0): 0 for a missing key.
CountOf(m, key) == IF key \in DOMAIN m THEN m[key] ELSE 0

\* m[key] = value
Store(m, key, value) ==
    [k \in DOMAIN m \cup {key} |-> IF k = key THEN value ELSE m[k]]

\* Variant: the counter of the zone is set to 1 instead of incremented.
ZoneStep_SetOne(zones, b) ==
    LET zone == classify_location(b.lat, b.lon)
        counter == IF b.bank \in DOMAIN zones THEN zones[b.bank] ELSE EmptyMap
    IN  Store(zones, b.bank, Store(counter, zone, 1))

\* bank_zones[bank][zone] += 1 on a defaultdict(lambda: Counter())
ZoneStep(zones, b) ==
    LET zone == classify_location(b.lat, b.lon)
        counter == IF b.bank \in DOMAIN zones THEN zones[b.bank] ELSE EmptyMap
    IN  Store(zones, b.bank, Store(counter, zone, CountOf(counter, zone) + 1))

\* bank_zones after the first k branches.
RECURSIVE ZoneScan(_, _)
ZoneScan(bs, k) ==
    IF k = 0 THEN EmptyMap ELSE ZoneStep(ZoneScan(bs, k - 1), bs[k])

zone_coverage_analysis(bs) == ZoneScan(bs, Len(bs))

----------------------------------------------------------------------------
(* Inputs of the zone analysis: points on both sides of every edge of the
   two boxes *)

MaxZoneBranches == 1

ZoneBanks == {BOB, KAPITAL}
ZoneLats == {-5560, -5559, -1, 0, 11119, 11120, 33358, 33359}
ZoneLons == {4964, 4965, 4977, 4978, 4998, 4999, 5020, 5021}

InitZones ==
    /\ branches \in SeqsUpTo([bank : ZoneBanks, lat : ZoneLats, lon : ZoneLons],
                             MaxZoneBranches)
    /\ stops = <<>>
    /\ threshold = WALKING_DISTANCE
    /\ accessibility = <<>>
    /\ gaps = <<>>
    /\ overlap_data = <<>>
    /\ done = {}
    /\ InitRest

\* bank_zones = zone_coverage_analysis(branches)
ZoneCoverageAnalysis ==
    /\ "zones" \notin done
    /\ bank_zones' = zone_coverage_analysis(branches)
    /\ done' = done \cup {"zones"}
    /\ UNCHANGED <<branches, stops, threshold, accessibility, gaps, overlap_data>>
    /\ UNCHANGED <<raw_branches, raw_stops, buses, error, loaded, branch_counts,
                   hub_data, bank_avg, bank_medians, head_to_head, summary>>
    /\ UNCHANGED <<area_counts, side_vars>>

NextZones == ZoneCoverageAnalysis

SpecZones == InitZones /\ [][NextZones]_vars

----------------------------------------------------------------------------
(* Properties of classify_location *)

ZonesDone == "zones" \in done

Zones == {"Baku Center", "Greater Baku", "Regional"}

InsideCenter(b) == 0 <= b.lat /\ b.lat <= 11119 /\ 4978 <= b.lon /\ b.lon <= 4998

InsideGreater(b) == -5559 <= b.lat /\ b.lat <= 33358 /\ 4965 <= b.lon /\ b.lon <= 5020

\* The tag the claim gives a point.
ClaimedZone(b) ==
    IF InsideCenter(b) THEN "Baku Center"
    ELSE IF InsideGreater(b) THEN "Greater Baku"
    ELSE "Regional"

\* The number of times the analysis tagged a branch of the bank with the zone.
Tagged(bank, zone) ==
    IF bank \in DOMAIN bank_zones THEN CountOf(bank_zones[bank], zone) ELSE 0

\* C11: a point inside the Center box (bounds included) is tagged Baku Center,
\* also when it is inside the Greater box; otherwise a point inside the Greater
\* box (bounds included) is tagged Greater Baku; otherwise Regional.  Every
\* point gets exactly one tag.
C11_ZoneOfEveryPoint ==
    ZonesDone =>
        \A bank \in ZoneBanks :
            /\ \A zone \in Zones :
                Tagged(bank, zone) =
                    Cardinality({i \in DOMAIN branches :
                        branches[i].bank = bank /\ ClaimedZone(branches[i]) = zone})
            /\ bank \in DOMAIN bank_zones => DOMAIN bank_zones[bank] \subseteq Zones

\* A point on a corner of the Center box, which is inside both boxes.
C11_Witness ==
    /\ ZonesDone
    /\ Len(branches) = 1
    /\ branches[1].lat = 0
    /\ branches[1].lon = 4998
    /\ InsideGreater(branches[1])
    /\ Tagged(branches[1].bank, "Baku Center") = 1
    /\ Tagged(branches[1].bank, "Greater Baku") = 0

----------------------------------------------------------------------------
(* safe_float and load_data *)

\* A raw coordinate is the text of a csv cell or the value of a json key;
\* "None" stands for the value None that a short csv row or a missing json key
\* gives.  float(val) for the raw values of the model: a number, in hundredths
\* of a degree, or the exception raised.
float(val) ==
    CASE val = "40.40" -> [kind |-> "float", v |-> 4040]
      [] val = "30.00" -> [kind |-> "float", v |-> 3000]
      [] val = "55.00" -> [kind |-> "float", v |-> 5500]
      [] val = "25.00" -> [kind |-> "float", v |-> 2500]
      [] val = "60.00" -> [kind |-> "float", v |-> 6000]
      [] val = "None" -> [kind |-> "TypeError", v |-> 0]
      [] OTHER -> [kind |-> "ValueError", v |-> 0]

\* The value None.
None == [kind |-> "None", v |-> 0]

\* Variant: only ValueError is caught.
safe_float_ValueErrorOnly(val) ==
    LET f == float(val)
    IN  IF f.kind = "float"
        THEN IF 3000 < f.v /\ f.v < 5500 THEN f ELSE None
        ELSE IF f.kind = "ValueError" THEN None ELSE f

\* Variant: the bounds 30 and 55 are accepted.
safe_float_Inclusive(val) ==
    LET f == float(val)
    IN  IF f.kind = "float"
        THEN IF 3000 <= f.v /\ f.v <= 5500 THEN f ELSE None
        ELSE IF f.kind \in {"ValueError", "TypeError"} THEN None ELSE f

\* Variant: a value that does not parse is replaced by 40.40.
safe_float_Placeholder(val) ==
    LET f == float(val)
    IN  IF f.kind = "float"
        THEN IF 3000 < f.v /\ f.v < 5500 THEN f ELSE None
        ELSE IF f.kind \in {"ValueError", "TypeError"}
             THEN [kind |-> "float", v |-> 4040] ELSE f

\* The result is a number strictly between 30 and 55, None, or the exception
\* that the except clause does not catch.
safe_float(val) ==
    LET f == float(val)
    IN  IF f.kind = "float"
        THEN IF 3000 < f.v /\ f.v < 5500 THEN f ELSE None
        ELSE IF f.kind \in {"ValueError", "TypeError"} THEN None ELSE f

Raised(x) == x.kind \notin {"float", "None"}

\* The truth value of a result of safe_float: None and 0.0 are false.
Truthy(x) == x.kind = "float" /\ x.v # 0

\* The branch list after the first k rows of the csv file, or the exception
\* that ended the loop.
RECURSIVE LoadBranches(_, _)
LoadBranches(rows, k) ==
    IF k = 0 THEN [error |-> "none", out |-> <<>>]
    ELSE LET before == LoadBranches(rows, k - 1)
             lat == safe_float(rows[k].lat)
             lon == safe_float(rows[k].long)
         IN  IF before.error # "none" THEN before
             ELSE IF Raised(lat) THEN [error |-> lat.kind, out |-> before.out]
             ELSE IF Raised(lon) THEN [error |-> lon.kind, out |-> before.out]
             ELSE IF Truthy(lat) /\ Truthy(lon)
                  THEN [error |-> "none",
                        out |-> Append(before.out,
                                  [bank |-> rows[k].bank_name, lat |-> lat.v, lon |-> lon.v])]
                  ELSE before

\* The stop list, before the route counts are added, after the first k entries
\* of the json file.
RECURSIVE LoadStops(_, _)
LoadStops(entries, k) ==
    IF k = 0 THEN [error |-> "none", out |-> <<>>]
    ELSE LET before == LoadStops(entries, k - 1)
             lat == safe_float(entries[k].latitude)
             lon == safe_float(entries[k].longitude)
         IN  IF before.error # "none" THEN before
             ELSE IF Raised(lat) THEN [error |-> lat.kind, out |-> before.out]
             ELSE IF Raised(lon) THEN [error |-> lon.kind, out |-> before.out]
             ELSE IF Truthy(lat) /\ Truthy(lon)
                  THEN [error |-> "none",
                        out |-> Append(before.out,
                                  [id |-> entries[k].id, lat |-> lat.v, lon |-> lon.v,
                                   hub |-> entries[k].isTransportHub])]
                  ELSE before

\* The stopId of every entry of every bus, in the order of the two loops.
RECURSIVE BusStopIds(_, _)
BusStopIds(bs, k) ==
    IF k = 0 THEN <<>> ELSE BusStopIds(bs, k - 1) \o bs[k].stops

\* Variant: every entry counts for every stop id seen so far.
RECURSIVE CountScan_AllKeys(_, _)
CountScan_AllKeys(sids, k) ==
    IF k = 0 THEN EmptyMap
    ELSE LET m == CountScan_AllKeys(sids, k - 1)
         IN  [key \in DOMAIN m \cup {sids[k]} |-> CountOf(m, key) + 1]

\* stop_route_count after the first k entries: stop_route_count[sid] += 1
RECURSIVE CountScan(_, _)
CountScan(sids, k) ==
    IF k = 0 THEN EmptyMap
    ELSE LET m == CountScan(sids, k - 1)
         IN  Store(m, sids[k], CountOf(m, sids[k]) + 1)

stop_route_count(bs) ==
    LET sids == BusStopIds(bs, Len(bs)) IN CountScan(sids, Len(sids))

\* s['routes'] = stop_route_count.get(s['id'], 0) for every loaded stop
Enrich(ss, counts) ==
    [k \in DOMAIN ss |->
        [id |-> ss[k].id, lat |-> ss[k].lat, lon |-> ss[k].lon, hub |-> ss[k].hub,
         routes |-> CountOf(counts, ss[k].id)]]

\* The branches and stops that load_data returns, or the exception it raises.
load_data(rows, entries, bs) ==
    LET b == LoadBranches(rows, Len(rows))
        s == LoadStops(entries, Len(entries))
    IN  IF b.error # "none" THEN [error |-> b.error, branches |-> <<>>, stops |-> <<>>]
        ELSE IF s.error # "none" THEN [error |-> s.error, branches |-> <<>>, stops |-> <<>>]
        ELSE [error |-> "none", branches |-> b.out,
              stops |-> Enrich(s.out, stop_route_count(bs))]

----------------------------------------------------------------------------
(* Inputs of the loader: rows and entries with one coordinate of every raw
   value next to a good one, or with two bad coordinates, and buses over
   stops that are loaded, dropped or unknown *)

MaxRawBranches == 2
MaxRawStops == 2
MaxBuses == 2
MaxBusStops == 2

RawCoords == {"40.40", "30.00", "55.00", "25.00", "60.00", "abc", "", "None"}

\* (latitude, longitude)
RawPairs ==
    {p \in RawCoords \X RawCoords :
        p[1] = "40.40" \/ p[2] = "40.40" \/ p = <<"abc", "None">>}

RoutePairs == {<<"40.40", "40.40">>, <<"abc", "40.40">>}
StopIds == {1, 2}
BusStopIdSet == {1, 3}

RawBranchRows(pairs) ==
    {[bank_name |-> BOB, lat |-> p[1], long |-> p[2]] : p \in pairs}

RawStopEntries(ids, pairs) ==
    {[id |-> i, latitude |-> p[1], longitude |-> p[2], isTransportHub |-> FALSE] :
        i \in ids, p \in pairs}

BusRecords == [stops : SeqsUpTo(BusStopIdSet, MaxBusStops)]

\* The files: rows with any raw coordinates, or entries with any raw
\* coordinates, or entries and buses.
InitFiles ==
    \/ /\ raw_branches \in SeqsUpTo(RawBranchRows(RawPairs), MaxRawBranches)
       /\ raw_stops = <<>>
       /\ buses = <<>>
    \/ /\ raw_branches = <<>>
       /\ raw_stops \in SeqsUpTo(RawStopEntries({1}, RawPairs), MaxRawStops)
       /\ buses = <<>>
    \/ /\ raw_branches = <<>>
       /\ raw_stops \in SeqsUpTo(RawStopEntries({1}, RoutePairs)
                                   \cup RawStopEntries(StopIds, {<<"40.40", "40.40">>}),
                               MaxRawStops)
       /\ buses \in SeqsUpTo(BusRecords, MaxBuses)

InitLoad ==
    /\ InitFiles
    /\ branches = <<>>
    /\ stops = <<>>
    /\ threshold = WALKING_DISTANCE
    /\ accessibility = <<>>
    /\ gaps = <<>>
    /\ overlap_data = <<>>
    /\ done = {}
    /\ error = "none"
    /\ loaded = [branches |-> <<>>, stops |-> <<>>]
    /\ branch_counts = <<>>
    /\ bank_zones = EmptyMap
    /\ hub_data = <<>>
    /\ bank_avg = EmptyMap
    /\ bank_medians = EmptyMap
    /\ head_to_head = <<>>
    /\ summary = <<>>
    /\ area_counts = <<>>
    /\ distance = <<>>
    /\ fetch = NoFetch

\* branches, stops, buses, stop_route_count = load_data()
LoadData ==
    /\ "load" \notin done
    /\ LET r == load_data(raw_branches, raw_stops, buses)
       IN  /\ error' = r.error
           /\ branches' = r.branches
           /\ stops' = r.stops
           /\ loaded' = [branches |-> r.branches, stops |-> r.stops]
    /\ done' = done \cup {"load"}
    /\ UNCHANGED <<threshold, accessibility, gaps, overlap_data>>
    /\ UNCHANGED <<raw_branches, raw_stops, buses, branch_counts, bank_zones,
                   hub_data, bank_avg, bank_medians, head_to_head, summary>>
    /\ UNCHANGED <<area_counts, side_vars>>

NextLoad == LoadData

SpecLoad == InitLoad /\ [][NextLoad]_vars

LoadDone == "load" \in done

----------------------------------------------------------------------------
(* Properties of load_data *)

\* The buses whose stop list includes the stop id.
BusesThrough(sid) ==
    {i \in DOMAIN buses : \E j \in DOMAIN buses[i].stops : buses[i].stops[j] = sid}

\* The entries of all buses with the stop id.
EntriesOf(sid) ==
    UNION {{<<i, j>> : j \in {n \in DOMAIN buses[i].stops : buses[i].stops[n] = sid}} :
               i \in DOMAIN buses}

\* C12: after loading, the route count of each stop is the number of distinct
\* routes whose stop list includes the stop's id; a route that lists the id
\* more than once contributes 1.
C12_DistinctRoutes ==
    LoadDone =>
        \A k \in DOMAIN stops : stops[k].routes = Cardinality(BusesThrough(stops[k].id))

\* What the loader counts: every entry with the stop's id, so a bus that lists
\* the stop twice counts twice.
RoutesCountEntries ==
    LoadDone =>
        \A k \in DOMAIN stops : stops[k].routes = Cardinality(EntriesOf(stops[k].id))

LoadedIds == {stops[k].id : k \in DOMAIN stops}

\* The buses without the entries whose stop id is not the id of a loaded stop.
WithoutDangling ==
    LET Known(sid) == sid \in LoadedIds
    IN  [i \in DOMAIN buses |-> [stops |-> SelectSeq(buses[i].stops, Known)]]

WithoutRoutes(ss) ==
    [k \in DOMAIN ss |-> [id |-> ss[k].id, lat |-> ss[k].lat, lon |-> ss[k].lon,
                          hub |-> ss[k].hub]]

\* C13: an entry of a route with the id of no loaded stop is ignored: load_data
\* raises nothing, the loaded stops are those loaded without any bus, every
\* route count is the one loaded from the buses without such entries, and a
\* loaded stop in no route has route count 0.
C13_DanglingIgnored ==
    LoadDone =>
        /\ error = "none"
        /\ WithoutRoutes(stops) = WithoutRoutes(load_data(raw_branches, raw_stops, <<>>).stops)
        /\ stops = load_data(raw_branches, raw_stops, WithoutDangling).stops
        /\ \A k \in DOMAIN stops : BusesThrough(stops[k].id) = {} => stops[k].routes = 0

\* A bus lists a loaded stop after an unknown stop and after a dropped stop;
\* another loaded stop is in no route.
C13_Witness ==
    /\ LoadDone
    /\ Len(raw_stops) = 2
    /\ Len(stops) = 1
    /\ stops[1].id = 1
    /\ stops[1].routes = 1
    /\ \E i \in DOMAIN buses : buses[i].stops = <<3, 1>>

IsNumber(val) == float(val).kind = "float"

Geographic(lat, lon) ==
    /\ IsNumber(lat) /\ -9000 <= float(lat).v /\ float(lat).v <= 9000
    /\ IsNumber(lon) /\ -18000 <= float(lon).v /\ float(lon).v <= 18000

Between30And55(val) == IsNumber(val) /\ 30 * 100 < float(val).v /\ float(val).v < 55 * 100

\* C15 as claimed: every row or entry with a latitude in [-90, 90] and a
\* longitude in [-180, 180] is in the loaded set.
C15_GeographicKept ==
    LoadDone =>
        /\ \A i \in DOMAIN raw_branches :
            Geographic(raw_branches[i].lat, raw_branches[i].long) =>
                \E k \in DOMAIN branches :
                    /\ branches[k].lat = float(raw_branches[i].lat).v
                    /\ branches[k].lon = float(raw_branches[i].long).v
        /\ \A i \in DOMAIN raw_stops :
            Geographic(raw_stops[i].latitude, raw_stops[i].longitude) =>
                \E k \in DOMAIN stops :
                    /\ stops[k].lat = float(raw_stops[i].latitude).v
                    /\ stops[k].lon = float(raw_stops[i].longitude).v

\* The rows (entries) whose two coordinates are numbers strictly between 30
\* and 55, as loaded records.
KeptBranches ==
    LET Keep(row) == Between30And55(row.lat) /\ Between30And55(row.long)
        rows == SelectSeq(raw_branches, Keep)
    IN  [k \in DOMAIN rows |->
            [bank |-> rows[k].bank_name, lat |-> float(rows[k].lat).v,
             lon |-> float(rows[k].long).v]]

KeptStops ==
    LET Keep(e) == Between30And55(e.latitude) /\ Between30And55(e.longitude)
        entries == SelectSeq(raw_stops, Keep)
    IN  [k \in DOMAIN entries |->
            [id |-> entries[k].id, lat |-> float(entries[k].latitude).v,
             lon |-> float(entries[k].longitude).v, hub |-> entries[k].isTransportHub]]

\* C15, amended: the loaded branches and stops are, in file order, exactly the
\* rows and entries whose latitude and longitude both parse to a number
\* strictly between 30 and 55.
C15_Between30And55Kept ==
    LoadDone =>
        /\ branches = KeptBranches
        /\ WithoutRoutes(stops) = KeptStops

\* A row at latitude 25 is dropped, a row on the bound 30 is dropped, and the
\* loaded list is not empty.
C15_Witness ==
    /\ LoadDone
    /\ Len(raw_stops) = 2
    /\ raw_stops[1].latitude = "25.00"
    /\ raw_stops[1].longitude = "40.40"
    /\ raw_stops[2].longitude = "40.40"
    /\ Len(stops) = 1

BadCoordinate(val) == ~IsNumber(val)

GoodBranchRows ==
    LET Good(row) == ~BadCoordinate(row.lat) /\ ~BadCoordinate(row.long)
    IN  SelectSeq(raw_branches, Good)

GoodStopEntries ==
    LET Good(e) == ~BadCoordinate(e.latitude) /\ ~BadCoordinate(e.longitude)
    IN  SelectSeq(raw_stops, Good)

\* C16: a row or entry with a coordinate that is not a number, is empty or is
\* missing does not end loading: load_data completes and returns what it
\* returns for the files without the bad rows and entries.
C16_BadRecordSkipped ==
    LoadDone =>
        /\ error = "none"
        /\ branches = load_data(GoodBranchRows, GoodStopEntries, buses).branches
        /\ stops = load_data(GoodBranchRows, GoodStopEntries, buses).stops

\* An entry with a missing longitude before an entry that is loaded.
C16_Witness ==
    /\ LoadDone
    /\ Len(raw_stops) = 2
    /\ raw_stops[1].latitude = "40.40"
    /\ raw_stops[1].longitude = "None"
    /\ raw_stops[2].latitude = "40.40"
    /\ raw_stops[2].longitude = "40.40"
    /\ Len(stops) = 1

----------------------------------------------------------------------------
(* branches_by_bank, compute_hub_proximity and the charts that compute
   per-bank statistics *)

\* sorted(seq, key=...) and list.sort(key=...), for the list of the keys of
\* the elements: the element at position i moves behind the elements of a
\* smaller key and the earlier elements of an equal key (the sort is stable).
StableSort(seq, key) ==
    LET rank(i) == 1 + Cardinality({j \in DOMAIN seq :
                        key[j] < key[i] \/ (key[j] = key[i] /\ j < i)})
    IN  [p \in DOMAIN seq |-> seq[CHOOSE i \in DOMAIN seq : rank(i) = p]]

\* The banks of the branches, each once, in the order of their first branch:
\* the keys of Counter(b['bank'] for b in branches).
RECURSIVE FirstSeen(_, _)
FirstSeen(bs, k) ==
    IF k = 0 THEN <<>>
    ELSE LET before == FirstSeen(bs, k - 1)
         IN  IF \E j \in DOMAIN before : before[j] = bs[k].bank
             THEN before ELSE Append(before, bs[k].bank)

\* Counter(...).most_common(): (bank, count) pairs, the largest count first,
\* equal counts in the order of first appearance.
branches_by_bank(bs) ==
    LET banks == FirstSeen(bs, Len(bs))
        count(bank) == Cardinality({i \in DOMAIN bs : bs[i].bank = bank})
        pairs == [k \in DOMAIN banks |-> <<banks[k], count(banks[k])>>]
    IN  StableSort(pairs, [k \in DOMAIN pairs |-> -pairs[k][2]])

\* min_dist after the first k hubs.
RECURSIVE HubScan(_, _, _)
HubScan(br, hs, k) ==
    IF k = 0 THEN inf
    ELSE LET min_dist == HubScan(br, hs, k - 1)
             d == haversine(br.lat, br.lon, hs[k].lat, hs[k].lon)
         IN  IF d < min_dist THEN d ELSE min_dist

\* Variant: every stop counts as a hub.
hubs_All(ss) == ss

\* hubs = [s for s in stops if s['hub']], a new list
hubs(ss) ==
    LET IsHub(s) == s.hub IN SelectSeq(ss, IsHub)

compute_hub_proximity(bs, ss) ==
    LET hs == hubs(ss)
    IN  [i \in 1..Len(bs) |->
            [bank |-> bs[i].bank, lat |-> bs[i].lat, lon |-> bs[i].lon,
             hub_distance_m |-> HubScan(bs[i], hs, Len(hs))]]

\* seq[:n]
Take(seq, n) == SubSeq(seq, 1, IF n < Len(seq) THEN n ELSE Len(seq))

\* [b[0] for b in branch_counts[:n]]
top_banks(counts, n) ==
    LET head == Take(counts, n) IN [k \in DOMAIN head |-> head[k][1]]

RECURSIVE sum(_)
sum(seq) == IF seq = <<>> THEN 0 ELSE seq[1] + sum(Tail(seq))

\* The quotient sum(seq) / len(seq), kept as its two terms; the division is
\* defined for len(seq) > 0 only.
Mean(seq) == [sum |-> sum(seq), len |-> Len(seq)]

Zero == [sum |-> 0, len |-> 1]

OfBank(acc, bank) ==
    LET Owned(a) == a.bank = bank IN SelectSeq(acc, Owned)

nearby_stops(recs) == [k \in DOMAIN recs |-> recs[k].nearby_stops]

nearby_routes(recs) == [k \in DOMAIN recs |-> recs[k].nearby_routes]

nearest_stop_m(recs) == [k \in DOMAIN recs |-> recs[k].nearest_stop_m]

\* bank_avg after the first k banks of top_banks: a bank without records gets
\* no entry.
RECURSIVE AvgStopsScan(_, _, _)
AvgStopsScan(acc, banks, k) ==
    IF k = 0 THEN EmptyMap
    ELSE LET bank_data == OfBank(acc, banks[k])
             before == AvgStopsScan(acc, banks, k - 1)
         IN  IF bank_data # <<>>
             THEN Store(before, banks[k], Mean(nearby_stops(bank_data)))
             ELSE before

TOP_15 == 15
TOP_10 == 10

\* bank_avg of chart 4.
chart_04_transit_accessibility(acc, counts) ==
    LET banks == top_banks(counts, TOP_15) IN AvgStopsScan(acc, banks, Len(banks))

RECURSIVE AvgRoutesScan(_, _, _)
AvgRoutesScan(acc, banks, k) ==
    IF k = 0 THEN EmptyMap
    ELSE LET bank_data == OfBank(acc, banks[k])
             before == AvgRoutesScan(acc, banks, k - 1)
         IN  IF bank_data # <<>>
             THEN Store(before, banks[k], Mean(nearby_routes(bank_data)))
             ELSE before

\* bank_avg of chart 5.
chart_05_route_connectivity(acc, counts) ==
    LET banks == top_banks(counts, TOP_15) IN AvgRoutesScan(acc, banks, Len(banks))

\* sorted(values)
SortedValues(values) == StableSort(values, values)

\* Variant: the element below the middle of a list of even length.
MiddleOf_Lower(dists) == dists[((Len(dists) - 1) \div 2) + 1]

\* dists[len(dists) // 2], for Python's positions from 0.
MiddleOf(dists) == dists[(Len(dists) \div 2) + 1]

RECURSIVE MedianScan(_, _, _)
MedianScan(acc, banks, k) ==
    IF k = 0 THEN EmptyMap
    ELSE LET dists == SortedValues(nearest_stop_m(OfBank(acc, banks[k])))
             before == MedianScan(acc, banks, k - 1)
         IN  IF dists # <<>> THEN Store(before, banks[k], MiddleOf(dists)) ELSE before

\* bank_medians of chart 10.
chart_10_nearest_stop_distribution(acc, counts) ==
    LET banks == top_banks(counts, TOP_10) IN MedianScan(acc, banks, Len(banks))

\* bob_vals and kap_vals of chart 12.
HeadToHeadVals(recs) ==
    LET routes == nearby_routes(recs)
        stops_nearby == nearby_stops(recs)
        nearest == SortedValues(nearest_stop_m(recs))
    IN  [avg_routes |-> IF routes # <<>> THEN Mean(routes) ELSE Zero,
         avg_stops |-> IF stops_nearby # <<>> THEN Mean(stops_nearby) ELSE Zero,
         median_nearest |-> IF nearest # <<>> THEN MiddleOf(nearest) ELSE 0]

chart_12_bob_vs_kapital(acc) ==
    [bob_vals |-> HeadToHeadVals(OfBank(acc, BOB)),
     kap_vals |-> HeadToHeadVals(OfBank(acc, KAPITAL))]

\* overlap_data after overlap_data.sort(key=lambda x: -x['total_competitors'])
chart_09_competitive_pressure(od) ==
    StableSort(od, [k \in DOMAIN od |-> -od[k].total_competitors])

\* The two averages that main prints for a bank, or the exception of the
\* division by len(recs).
SummaryOf(recs) ==
    IF Len(recs) = 0 THEN [error |-> "ZeroDivisionError", avg_stops |-> Zero, avg_routes |-> Zero]
    ELSE [error |-> "none", avg_stops |-> Mean(nearby_stops(recs)),
          avg_routes |-> Mean(nearby_routes(recs))]

\* len(bob_baku) and len(bob_regional), the "Baku area" and "Regional" counts
\* of the summary: the records whose latitude is, or is not, between
\* BAKU_GREATER['lat_min'] and BAKU_GREATER['lat_max'].
area_counts_of(bob_acc) ==
    LET in_lat(a) == BAKU_GREATER.lat_min <= a.lat /\ a.lat <= BAKU_GREATER.lat_max
    IN  [baku |-> Cardinality({k \in DOMAIN bob_acc : in_lat(bob_acc[k])}),
         regional |-> Cardinality({k \in DOMAIN bob_acc : ~in_lat(bob_acc[k])})]

\* avg_routes per bank of chart 13: the banks are those of the records.
chart_13_accessibility_vs_size(acc) ==
    LET banks == FirstSeen(acc, Len(acc)) IN AvgRoutesScan(acc, banks, Len(banks))

----------------------------------------------------------------------------
(* main: the analyses and then the charts, one call after the other.  The
   charts that only read their arguments and draw are left out; drawing
   itself is not modelled. *)

MaxMainBranches == 3
MaxMainStops == 2

MainBanks == {BOB, KAPITAL}
MainBranchLats == {0, 1100}
MainStopKinds ==
    {[lat |-> 0, lon |-> LON, hub |-> TRUE, routes |-> 10],
     [lat |-> 400, lon |-> LON, hub |-> FALSE, routes |-> 10]}

InitMain ==
    /\ branches \in SeqsUpTo(BranchRecords(MainBanks, MainBranchLats), MaxMainBranches)
    /\ stops \in StopLists(MainStopKinds, MaxMainStops)
    /\ threshold = WALKING_DISTANCE
    /\ accessibility = <<>>
    /\ gaps = <<>>
    /\ overlap_data = <<>>
    /\ done = {}
    /\ InitRest

MainOrder ==
    <<"branch_counts", "zones", "accessibility", "hub", "gaps", "overlap",
      "chart_04", "chart_05", "chart_07", "chart_09", "chart_10", "chart_12",
      "chart_13", "summary">>

\* The call is the next one of main, and no exception has ended the run.
Turn(name) ==
    /\ error = "none"
    /\ \E p \in DOMAIN MainOrder :
        /\ MainOrder[p] = name
        /\ done = {MainOrder[q] : q \in 1..(p - 1)}

file_vars == <<raw_branches, raw_stops, buses, loaded>>

input_vars == <<branches, stops, threshold>>

\* branch_counts = branches_by_bank(branches)
BranchesByBank ==
    /\ "branch_counts" \notin done
    /\ branch_counts' = branches_by_bank(branches)
    /\ done' = done \cup {"branch_counts"}
    /\ UNCHANGED <<input_vars, file_vars, side_vars, error, area_counts>>
    /\ UNCHANGED <<accessibility, gaps, overlap_data, bank_zones, hub_data>>
    /\ UNCHANGED <<bank_avg, bank_medians, head_to_head, summary>>

\* Variant: the hubs are selected in the list of stops itself.
ComputeHubProximity_FiltersInPlace ==
    /\ "hub" \notin done
    /\ hub_data' = compute_hub_proximity(branches, stops)
    /\ stops' = hubs(stops)
    /\ done' = done \cup {"hub"}
    /\ UNCHANGED <<branches, threshold, file_vars, side_vars, error, area_counts>>
    /\ UNCHANGED <<accessibility, gaps, overlap_data, bank_zones, branch_counts>>
    /\ UNCHANGED <<bank_avg, bank_medians, head_to_head, summary>>

\* hub_data = compute_hub_proximity(branches, stops)
ComputeHubProximity ==
    /\ "hub" \notin done
    /\ hub_data' = compute_hub_proximity(branches, stops)
    /\ done' = done \cup {"hub"}
    /\ UNCHANGED <<input_vars, file_vars, side_vars, error, area_counts>>
    /\ UNCHANGED <<accessibility, gaps, overlap_data, bank_zones, branch_counts>>
    /\ UNCHANGED <<bank_avg, bank_medians, head_to_head, summary>>

\* A chart that leaves its bank_avg.
ChartOfAverages(name, avg) ==
    /\ Turn(name)
    /\ bank_avg' = Store(bank_avg, name, avg)
    /\ done' = done \cup {name}
    /\ UNCHANGED <<input_vars, file_vars, side_vars, error, area_counts>>
    /\ UNCHANGED <<accessibility, gaps, overlap_data, bank_zones, hub_data, branch_counts>>
    /\ UNCHANGED <<bank_medians, head_to_head, summary>>

Chart04 ==
    ChartOfAverages("chart_04", chart_04_transit_accessibility(accessibility, branch_counts))

Chart05 ==
    ChartOfAverages("chart_05", chart_05_route_connectivity(accessibility, branch_counts))

Chart13 ==
    ChartOfAverages("chart_13", chart_13_accessibility_vs_size(accessibility))

\* chart_07_bob_branch_scorecard sorts bob_data, a list of its own.
Chart07 ==
    /\ Turn("chart_07")
    /\ done' = done \cup {"chart_07"}
    /\ UNCHANGED <<input_vars, file_vars, side_vars, error, area_counts>>
    /\ UNCHANGED <<accessibility, gaps, overlap_data, bank_zones, hub_data, branch_counts>>
    /\ UNCHANGED <<bank_avg, bank_medians, head_to_head, summary>>

\* chart_09_competitive_pressure sorts its argument, the list that main holds.
Chart09 ==
    /\ Turn("chart_09")
    /\ overlap_data' = chart_09_competitive_pressure(overlap_data)
    /\ done' = done \cup {"chart_09"}
    /\ UNCHANGED <<input_vars, file_vars, side_vars, error, area_counts>>
    /\ UNCHANGED <<accessibility, gaps, bank_zones, hub_data, branch_counts>>
    /\ UNCHANGED <<bank_avg, bank_medians, head_to_head, summary>>

Chart10 ==
    /\ Turn("chart_10")
    /\ bank_medians' = chart_10_nearest_stop_distribution(accessibility, branch_counts)
    /\ done' = done \cup {"chart_10"}
    /\ UNCHANGED <<input_vars, file_vars, side_vars, error, area_counts>>
    /\ UNCHANGED <<accessibility, gaps, overlap_data, bank_zones, hub_data, branch_counts>>
    /\ UNCHANGED <<bank_avg, head_to_head, summary>>

Chart12 ==
    /\ Turn("chart_12")
    /\ head_to_head' = chart_12_bob_vs_kapital(accessibility)
    /\ done' = done \cup {"chart_12"}
    /\ UNCHANGED <<input_vars, file_vars, side_vars, error, area_counts>>
    /\ UNCHANGED <<accessibility, gaps, overlap_data, bank_zones, hub_data, branch_counts>>
    /\ UNCHANGED <<bank_avg, bank_medians, summary>>

\* The summary statistics: the averages of the home bank, then those of
\* Kapital Bank; a division by zero ends the run.
Summary ==
    /\ Turn("summary")
    /\ LET bob_acc == SummaryOf(OfBank(accessibility, BOB))
           kap_acc == SummaryOf(OfBank(accessibility, KAPITAL))
       IN  IF bob_acc.error # "none"
           THEN error' = bob_acc.error /\ summary' = summary
           ELSE IF kap_acc.error # "none"
           THEN error' = kap_acc.error /\ summary' = summary
           ELSE /\ error' = "none"
                /\ summary' = [bob |-> bob_acc, kapital |-> kap_acc]
    /\ area_counts' = area_counts_of(OfBank(accessibility, BOB))
    /\ done' = done \cup {"summary"}
    /\ UNCHANGED <<input_vars, file_vars, side_vars>>
    /\ UNCHANGED <<accessibility, gaps, overlap_data, bank_zones, hub_data, branch_counts>>
    /\ UNCHANGED <<bank_avg, bank_medians, head_to_head>>

NextMain ==
    \/ Turn("branch_counts") /\ BranchesByBank
    \/ Turn("zones") /\ ZoneCoverageAnalysis
    \/ Turn("accessibility") /\ ComputeAccessibility(WALKING_DISTANCE)
    \/ Turn("hub") /\ ComputeHubProximity
    \/ Turn("gaps") /\ FindCompetitorGaps
    \/ Turn("overlap") /\ ComputeCompetitiveOverlap
    \/ Chart04
    \/ Chart05
    \/ Chart07
    \/ Chart09
    \/ Chart10
    \/ Chart12
    \/ Chart13
    \/ Summary

SpecMain == InitMain /\ [][NextMain]_vars

----------------------------------------------------------------------------
(* Properties of main and the charts *)

AveragesOf(chart) == IF chart \in DOMAIN bank_avg THEN bank_avg[chart] ELSE EmptyMap

\* C17: no mean of nearby stops or nearby routes divides by a record count of
\* zero: a bank without accessibility records is left out or reported as such,
\* in the charts and in the summary that main prints for the home bank and for
\* Kapital Bank.
C17_NoDivisionByZero ==
    /\ error # "ZeroDivisionError"
    /\ \A chart \in DOMAIN bank_avg :
        \A bank \in DOMAIN bank_avg[chart] : bank_avg[chart][bank].len > 0
    /\ summary # <<>> =>
        /\ summary.bob.avg_stops.len > 0 /\ summary.bob.avg_routes.len > 0
        /\ summary.kapital.avg_stops.len > 0 /\ summary.kapital.avg_routes.len > 0

\* The accessibility records of a bank, by position.
RecordsOf(bank) == {i \in DOMAIN accessibility : accessibility[i].bank = bank}

Below(bank, m) ==
    Cardinality({i \in RecordsOf(bank) : accessibility[i].nearest_stop_m < m})

AtMost(bank, m) ==
    Cardinality({i \in RecordsOf(bank) : accessibility[i].nearest_stop_m <= m})

\* m is the r-th smallest nearest-stop distance of the bank.
IsRanked(bank, m, r) ==
    /\ \E i \in RecordsOf(bank) : accessibility[i].nearest_stop_m = m
    /\ Below(bank, m) < r
    /\ r <= AtMost(bank, m)

Size(bank) == Cardinality(RecordsOf(bank))

MedianOf(bank) == IF bank \in DOMAIN bank_medians THEN bank_medians[bank] ELSE -1

HeadToHeadMedian(bank) ==
    IF bank = BOB THEN head_to_head.bob_vals.median_nearest
    ELSE head_to_head.kap_vals.median_nearest

\* C18 as claimed: the median of an even number of distances is the lower of
\* the two middle ones or their mean.
C18_LowerOrMean ==
    "chart_10" \in done =>
        \A bank \in MainBanks :
            (Size(bank) > 0 /\ Size(bank) % 2 = 0) =>
                \E lo, hi \in {accessibility[i].nearest_stop_m : i \in RecordsOf(bank)} :
                    /\ IsRanked(bank, lo, Size(bank) \div 2)
                    /\ IsRanked(bank, hi, (Size(bank) \div 2) + 1)
                    /\ \/ MedianOf(bank) = lo
                       \/ 2 * MedianOf(bank) = lo + hi

\* C18, amended: the median of a bank is the distance at position len // 2,
\* counted from 0, of its sorted distances: the middle one of an odd number,
\* the upper of the two middle ones of an even number; chart 10 and chart 12
\* report the same value.
C18_UpperMiddle ==
    "chart_12" \in done =>
        \A bank \in MainBanks :
            Size(bank) > 0 =>
                /\ IsRanked(bank, MedianOf(bank), (Size(bank) \div 2) + 1)
                /\ HeadToHeadMedian(bank) = MedianOf(bank)

\* Two branches of the home bank at different distances from their nearest
\* stops: the median is the larger distance.
C18_Witness ==
    /\ "chart_12" \in done
    /\ Size(BOB) = 2
    /\ \E i, j \in RecordsOf(BOB) :
        /\ accessibility[i].nearest_stop_m < accessibility[j].nearest_stop_m
        /\ MedianOf(BOB) = accessibility[j].nearest_stop_m
        /\ HeadToHeadMedian(BOB) = accessibility[j].nearest_stop_m

\* C19: once the data are loaded, no analysis and no chart changes the
\* contents or the order of the branch list, of the stop list or of a derived
\* collection that has been produced.
C19_NothingMutated ==
    [][/\ branches' = branches
       /\ stops' = stops
       /\ "accessibility" \in done => accessibility' = accessibility
       /\ "hub" \in done => hub_data' = hub_data
       /\ "gaps" \in done => gaps' = gaps
       /\ "overlap" \in done => overlap_data' = overlap_data]_vars

----------------------------------------------------------------------------
(* The five analyzers over the same loaded branches and stops, called in any
   order.  Each analyzer is one call of a single-threaded program and works
   on locals, so the calls are the steps that can be reordered. *)

MaxAnyBranches == 2
MaxAnyStops == 2

AnyBanks == {BOB, KAPITAL}
AnyBranchLats == {0, 700}
AnyStopKinds ==
    {[lat |-> 0, lon |-> LON, hub |-> TRUE, routes |-> 10],
     [lat |-> 700, lon |-> LON, hub |-> FALSE, routes |-> 10]}

InitAnyOrder ==
    /\ branches \in SeqsUpTo(BranchRecords(AnyBanks, AnyBranchLats), MaxAnyBranches)
    /\ stops \in StopLists(AnyStopKinds, MaxAnyStops)
    /\ threshold = WALKING_DISTANCE
    /\ accessibility = <<>>
    /\ gaps = <<>>
    /\ overlap_data = <<>>
    /\ done = {}
    /\ InitRest

NextAnyOrder ==
    \/ ZoneCoverageAnalysis
    \/ ComputeAccessibility(WALKING_DISTANCE)
    \/ ComputeHubProximity
    \/ FindCompetitorGaps
    \/ ComputeCompetitiveOverlap

SpecAnyOrder == InitAnyOrder /\ [][NextAnyOrder]_vars

\* C20: the analyzers share no mutable state: in whatever order they have run,
\* each result is the one of the analyzer on the branches and stops as loaded,
\* which is its result in the order of main, and the loaded lists are as they
\* were.
C20_AnyOrderSameResults ==
    /\ branches = loaded.branches
    /\ stops = loaded.stops
    /\ "zones" \in done => bank_zones = zone_coverage_analysis(loaded.branches)
    /\ "accessibility" \in done =>
          accessibility = compute_accessibility(loaded.branches, loaded.stops, WALKING_DISTANCE)
    /\ "hub" \in done => hub_data = compute_hub_proximity(loaded.branches, loaded.stops)
    /\ "gaps" \in done => gaps = find_competitor_gaps(loaded.branches, loaded.stops, BOB)
    /\ "overlap" \in done => overlap_data = compute_competitive_overlap(loaded.branches, BOB)

\* The other analyzers have run before zone_coverage_analysis, the first one
\* in main, on stops of which one is no hub; a stop is within walking distance
\* of a branch and there is a gap.
C20_Witness ==
    /\ done = {"accessibility", "hub", "gaps", "overlap"}
    /\ Len(stops) = 2
    /\ Len(hubs(stops)) = 1
    /\ gaps # <<>>
    /\ \E i \in DOMAIN accessibility : accessibility[i].nearby_stops > 0

----------------------------------------------------------------------------
(* Further properties of compute_accessibility *)

\* C21: a negative radius is rejected with an error before any branch or stop
\* is processed: the analyzer returns no records computed with a negative
\* radius.
C21_NegativeRadiusRejected ==
    (AccDone /\ threshold < 0) => (error # "none" /\ accessibility = <<>>)

\* What the analyzer does with a negative radius: one record per branch, with
\* no stop within the radius.
NegativeRadiusRecords ==
    (AccDone /\ threshold < 0) =>
        /\ error = "none"
        /\ Len(accessibility) = Len(branches)
        /\ \A i \in DOMAIN accessibility : accessibility[i].nearby_stops = 0

\* C26: for a radius that is not negative, a branch has a stop within the
\* radius exactly if its nearest stop is not farther than the radius.
C26_NearbyIffNearestWithin ==
    (AccDone /\ threshold >= 0) =>
        \A i \in DOMAIN accessibility :
            (accessibility[i].nearby_stops >= 1) <=>
                (accessibility[i].nearest_stop_m <= threshold)

\* With radius 0: a branch at a stop, and a branch 600 m from its nearest stop.
C26_Witness ==
    /\ AccDone
    /\ threshold = 0
    /\ \E i, j \in DOMAIN accessibility :
        /\ accessibility[i].nearby_stops = 1 /\ accessibility[i].nearest_stop_m = 0
        /\ accessibility[j].nearby_stops = 0 /\ accessibility[j].nearest_stop_m = 600

----------------------------------------------------------------------------
(* The analyzers as main calls them, with no argument overridden, on points
   at and just beyond each radius: branches 500 and 501 m apart, stops 400
   and 401 m from a branch and 600 and 601 m from a branch, stops of 9 and
   10 routes *)

MaxDefaultBranches == 2
MaxDefaultStops == 2

DefaultBanks == {BOB, KAPITAL}
DefaultBranchLats == {0, 500, 1001}
DefaultStopKinds ==
    {[lat |-> 400, lon |-> LON, hub |-> FALSE, routes |-> 10],
     [lat |-> 901, lon |-> LON, hub |-> FALSE, routes |-> 10],
     [lat |-> 1100, lon |-> LON, hub |-> FALSE, routes |-> 10],
     [lat |-> 1100, lon |-> LON, hub |-> FALSE, routes |-> 9],
     [lat |-> 1602, lon |-> LON, hub |-> FALSE, routes |-> 10]}

InitDefaults ==
    /\ branches \in SeqsUpTo(BranchRecords(DefaultBanks, DefaultBranchLats),
                             MaxDefaultBranches)
    /\ stops \in StopLists(DefaultStopKinds, MaxDefaultStops)
    /\ threshold = WALKING_DISTANCE
    /\ accessibility = <<>>
    /\ gaps = <<>>
    /\ overlap_data = <<>>
    /\ done = {}
    /\ InitRest

NextDefaults ==
    \/ ComputeAccessibility(WALKING_DISTANCE)
    \/ FindCompetitorGaps
    \/ ComputeCompetitiveOverlap

SpecDefaults == InitDefaults /\ [][NextDefaults]_vars

NoCompetitorBranches == \A i \in DOMAIN branches : branches[i].bank = BOB

NoHomeBranches == \A i \in DOMAIN branches : branches[i].bank # BOB

\* C22: with no competitor branch nothing raises, compute_competitive_overlap
\* returns for every home branch an empty competitor_banks and
\* total_competitors = 0, and find_competitor_gaps returns an empty list; with
\* no home branch compute_competitive_overlap returns an empty list.
C22_NoCompetitorsNoHome ==
    /\ error = "none"
    /\ (NoCompetitorBranches /\ OverlapDone) =>
          /\ Len(overlap_data) = Len(branches)
          /\ \A j \in DOMAIN overlap_data :
                /\ DOMAIN overlap_data[j].competitor_banks = {}
                /\ overlap_data[j].total_competitors = 0
    /\ (NoCompetitorBranches /\ GapsDone) => gaps = <<>>
    /\ (NoHomeBranches /\ OverlapDone) => overlap_data = <<>>

\* Two home branches 500 m apart, no competitor, and a stop of 10 routes.
C22_Witness ==
    /\ OverlapDone
    /\ GapsDone
    /\ NoCompetitorBranches
    /\ Len(overlap_data) = 2
    /\ BranchDist(1, 2) = 500
    /\ \E k \in DOMAIN stops : stops[k].routes = 10

\* The stops within 400 m of branch i.
StopsWithin400(i) ==
    {k \in DOMAIN stops :
        haversine(branches[i].lat, branches[i].lon, stops[k].lat, stops[k].lon) <= 400}

\* C23: with no option overridden the radius of the nearby counts is 400 m,
\* the radius of the overlap is 500 m, the radius of both tests of the gap
\* finding is 600 m, and a stop is high-traffic from 10 routes on.
C23_DocumentedDefaults ==
    /\ AccDone =>
          /\ threshold = 400
          /\ \A i \in DOMAIN accessibility :
                /\ accessibility[i].nearby_stops = Cardinality(StopsWithin400(i))
                /\ accessibility[i].nearby_routes = SumRoutesOver(StopsWithin400(i))
    /\ OverlapDone =>
          \A j \in DOMAIN overlap_data :
              overlap_data[j].total_competitors = Cardinality(OthersWithin500(HomePos(j)))
    /\ GapsDone =>
          \A k \in DOMAIN stops :
              (\E j \in DOMAIN gaps : gaps[j].stop_id = stops[k].id)
                  <=> /\ stops[k].routes >= 10
                      /\ ~\E i \in DOMAIN branches :
                            branches[i].bank = BOB /\ StopBranchDist(k, i) <= 600
                      /\ \E i \in DOMAIN branches :
                            branches[i].bank # BOB /\ StopBranchDist(k, i) <= 600

\* A competitor 500 m from a home branch, a stop 400 m from a branch, and a
\* stop that is a gap with its competitor at 600 m.
C23_Witness ==
    /\ AccDone /\ OverlapDone /\ GapsDone
    /\ \E i \in DOMAIN accessibility :
        accessibility[i].nearest_stop_m = 400 /\ accessibility[i].nearby_stops = 1
    /\ \E j \in DOMAIN overlap_data :
        /\ overlap_data[j].total_competitors = 1
        /\ \E k \in DOMAIN branches : BranchDist(HomePos(j), k) = 500
    /\ \E j \in DOMAIN gaps :
        \E i \in DOMAIN branches :
            /\ branches[i].bank # BOB
            /\ StopBranchDist(InputPos(gaps[j].stop_id), i) = 600

\* C25: every branch is a home branch or a competitor branch and not both; no
\* home branch is in a competitor count, and the home bank is no key of a
\* competitor_banks.
C25_PartitionByOwner ==
    /\ LET home == bob_branches(branches, BOB)
           comps == competitor_branches(branches, BOB)
       IN  /\ Len(home) + Len(comps) = Len(branches)
           /\ \A i \in DOMAIN home : home[i].bank = BOB
           /\ \A i \in DOMAIN comps : comps[i].bank # BOB
    /\ OverlapDone =>
          /\ Len(overlap_data) = Cardinality(HomePositions)
          /\ \A j \in DOMAIN overlap_data :
                /\ BOB \notin DOMAIN overlap_data[j].competitor_banks
                /\ overlap_data[j].total_competitors
                      <= Cardinality(DOMAIN branches \ HomePositions)
    /\ GapsDone =>
          \A j \in DOMAIN gaps :
              /\ gaps[j].competitors_nearby <= Cardinality(DOMAIN branches \ HomePositions)
              /\ HomeWithin600(InputPos(gaps[j].stop_id)) = {}

\* A home branch and a competitor 500 m apart: the home branch, at distance 0
\* from itself, is not counted; a stop is a gap of one competitor.
C25_Witness ==
    /\ OverlapDone /\ GapsDone
    /\ Len(branches) = 2
    /\ Len(overlap_data) = 1
    /\ overlap_data[1].total_competitors = 1
    /\ DOMAIN overlap_data[1].competitor_banks = {KAPITAL}
    /\ \E j \in DOMAIN gaps : gaps[j].competitors_nearby = 1

----------------------------------------------------------------------------
(* haversine over the whole globe.  Coordinates are whole degrees here and
   the two points lie on one great circle through the poles: their
   longitudes are equal or differ by 180 degrees.  With dlambda = 0 the
   haversine term a is sin^2(dphi/2); with dlambda = 180 degrees it is
   sin^2(dphi/2) + cos(phi1)cos(phi2) = cos^2((phi1+phi2)/2).  The central
   angle is therefore |lat2 - lat1| on one meridian and 180 - |lat1 + lat2|
   across the pole. *)

\* R * radians(1), in metres
METRES_PER_DEGREE == 111195

CentralAngle(lat1, lon1, lat2, lon2) ==
    IF lon1 = lon2 THEN Abs(lat2 - lat1) ELSE 180 - Abs(lat1 + lat2)

\* For antipodal points a is 1 in exact arithmetic.  In floating point the sum
\* of its two terms is 1 or the next float above 1, by the rounding of sin and
\* cos; when a latitude is 0 both terms are exact (0 and 1).
MayRoundAboveOne(lat1, lon1, lat2, lon2) ==
    CentralAngle(lat1, lon1, lat2, lon2) = 180 /\ lat1 # 0

\* The outcome of haversine(lat1, lon1, lat2, lon2): math.sqrt(1 - a) raises
\* ValueError when a was rounded above 1.
haversine_outcome(lat1, lon1, lat2, lon2, above_one) ==
    IF above_one /\ MayRoundAboveOne(lat1, lon1, lat2, lon2)
    THEN [error |-> "ValueError", value |-> 0]
    ELSE [error |-> "none",
          value |-> METRES_PER_DEGREE * CentralAngle(lat1, lon1, lat2, lon2)]

GlobeLats == {-8, 0, 8, 40}
GlobeLons == {0, 180}
GlobePoints == [lat : GlobeLats, lon : GlobeLons]

NotCalled == [error |-> "not called", value |-> 0]

InitDistance ==
    /\ distance \in [a : GlobePoints, b : GlobePoints,
                     ab : {NotCalled}, ba : {NotCalled}, aa : {NotCalled}]
    /\ fetch = NoFetch
    /\ area_counts = <<>>
    /\ branches = <<>>
    /\ stops = <<>>
    /\ threshold = WALKING_DISTANCE
    /\ accessibility = <<>>
    /\ gaps = <<>>
    /\ overlap_data = <<>>
    /\ done = {}
    /\ raw_branches = <<>>
    /\ raw_stops = <<>>
    /\ buses = <<>>
    /\ error = "none"
    /\ loaded = [branches |-> <<>>, stops |-> <<>>]
    /\ branch_counts = <<>>
    /\ bank_zones = EmptyMap
    /\ hub_data = <<>>
    /\ bank_avg = EmptyMap
    /\ bank_medians = EmptyMap
    /\ head_to_head = <<>>
    /\ summary = <<>>

\* haversine(a, b), haversine(b, a) and haversine(a, a).  The two orders of one
\* pair compute the same a: the subtraction, the squares and the product of
\* the cosines give the same floats in both orders.
Haversine ==
    /\ "haversine" \notin done
    /\ \E above_one \in BOOLEAN :
           LET a == distance.a
               b == distance.b
           IN  distance' =
                   [distance EXCEPT
                       !.ab = haversine_outcome(a.lat, a.lon, b.lat, b.lon, above_one),
                       !.ba = haversine_outcome(b.lat, b.lon, a.lat, a.lon, above_one),
                       !.aa = haversine_outcome(a.lat, a.lon, a.lat, a.lon, above_one)]
    /\ done' = done \cup {"haversine"}
    /\ UNCHANGED <<branches, stops, threshold, accessibility, gaps, overlap_data>>
    /\ UNCHANGED <<raw_branches, raw_stops, buses, error, loaded, branch_counts,
                   bank_zones, hub_data, bank_avg, bank_medians, head_to_head,
                   summary, area_counts, fetch>>

NextDistance == Haversine

SpecDistance == InitDistance /\ [][NextDistance]_vars

DistanceDone == "haversine" \in done

\* C24: for all points a and b, haversine(a, b) and haversine(b, a) both
\* return, and return the same number; haversine(a, a) is 0; no result is
\* negative.
C24_SymmetricZeroNonNegative ==
    DistanceDone =>
        /\ distance.ab.error = "none" /\ distance.ba.error = "none"
        /\ distance.aa.error = "none"
        /\ distance.ab.value = distance.ba.value
        /\ distance.aa.value = 0
        /\ distance.ab.value >= 0

\* What the code does: the two orders have the same outcome, a returned
\* distance is not negative and is 0 for identical points, and only a call on
\* antipodal points raises.
HaversineWhereDefined ==
    DistanceDone =>
        /\ distance.ab = distance.ba
        /\ distance.aa = [error |-> "none", value |-> 0]
        /\ distance.ab.value >= 0
        /\ distance.ab.error # "none" =>
               /\ distance.a.lat = -distance.b.lat
               /\ distance.a.lon # distance.b.lon

----------------------------------------------------------------------------
(* compute_hub_proximity against compute_accessibility *)

\* The distances from branch br to the hub-flagged stops.
HubDistances(br) ==
    {haversine(br.lat, br.lon, stops[j].lat, stops[j].lon) :
        j \in {n \in DOMAIN stops : stops[n].hub}}

\* C27: once both analyses ran on the same branches and stops, each branch's
\* hub_distance_m is the minimum distance over the hub-flagged stops only,
\* positive infinity when no stop is a hub, and it is at least the
\* nearest_stop_m that compute_accessibility reports for the branch.
C27_HubDistanceAtLeastNearest ==
    ({"hub", "accessibility"} \subseteq done) =>
        /\ Len(hub_data) = Len(branches)
        /\ \A i \in DOMAIN hub_data :
               LET h == hub_data[i].hub_distance_m
                   ds == HubDistances(branches[i])
               IN  /\ hub_data[i].bank = branches[i].bank
                   /\ (ds = {}) => h = inf
                   /\ (ds # {}) => (h \in ds /\ \A d \in ds : h <= d)
                   /\ h >= accessibility[i].nearest_stop_m

\* Both analyses ran and some branch has a non-hub stop nearer than its
\* nearest hub.
C27_Witness ==
    /\ {"hub", "accessibility"} \subseteq done
    /\ \E i \in DOMAIN hub_data :
           /\ hub_data[i].hub_distance_m < inf
           /\ hub_data[i].hub_distance_m > accessibility[i].nearest_stop_m

----------------------------------------------------------------------------
(* main over branches inside and outside the two boxes.  All points of one
   run lie on one meridian, LON (inside both longitude ranges) or LON_WEST
   (west of both), so that haversine is the distance along the meridian;
   latitudes are arc-metres north of BAKU_CENTER['lat_min'] as in the zone
   analysis. *)

MaxRegionBranches == 3
MaxRegionStops == 1

\* 47.00 E, in hundredths of a degree
LON_WEST == 4700

RegionBanks == {BOB, KAPITAL}
RegionLats == {0, 20000, 40000}
RegionMeridians == {LON, LON_WEST}

InitRegions ==
    /\ \E lon \in RegionMeridians :
        /\ branches \in SeqsUpTo([bank : RegionBanks, lat : RegionLats, lon : {lon}],
                                 MaxRegionBranches)
        /\ stops \in StopLists([lat : {0}, lon : {lon}, hub : {TRUE}, routes : {10}],
                               MaxRegionStops)
    /\ threshold = WALKING_DISTANCE
    /\ accessibility = <<>>
    /\ gaps = <<>>
    /\ overlap_data = <<>>
    /\ done = {}
    /\ InitRest

SpecRegions == InitRegions /\ [][NextMain]_vars

----------------------------------------------------------------------------
(* Properties of the per-bank aggregates *)

\* The sum of the zone counts of one bank.
ZoneTotal(bank) ==
    IF bank \in DOMAIN bank_zones
    THEN CountOf(bank_zones[bank], "Baku Center")
         + CountOf(bank_zones[bank], "Greater Baku")
         + CountOf(bank_zones[bank], "Regional")
    ELSE 0

\* The count branches_by_bank reports for a bank, 0 for a bank it does not list.
BankCount(bank) ==
    sum([k \in DOMAIN branch_counts |->
            IF branch_counts[k][1] = bank THEN branch_counts[k][2] ELSE 0])

\* C28: for every bank the zone counts of zone_coverage_analysis sum to its
\* count from branches_by_bank; the counts of branches_by_bank sum to the
\* number of loaded branches; branches_by_bank lists the banks in
\* non-increasing order of count.
C28_AggregatesAgree ==
    ({"branch_counts", "zones"} \subseteq done) =>
        /\ \A bank \in RegionBanks :
               /\ ZoneTotal(bank) = BankCount(bank)
               /\ bank \in DOMAIN bank_zones => DOMAIN bank_zones[bank] \subseteq Zones
        /\ DOMAIN bank_zones = {branch_counts[k][1] : k \in DOMAIN branch_counts}
        /\ sum([k \in DOMAIN branch_counts |-> branch_counts[k][2]]) = Len(branches)
        /\ \A k \in DOMAIN branch_counts :
               k > 1 => branch_counts[k - 1][2] >= branch_counts[k][2]

\* Both aggregates exist for two banks of different size, the larger one with
\* two branches in one zone and a third in another.
C28_Witness ==
    /\ {"branch_counts", "zones"} \subseteq done
    /\ Len(branch_counts) = 2
    /\ branch_counts[1][2] > branch_counts[2][2]
    /\ \E bank \in DOMAIN bank_zones :
           \E z \in DOMAIN bank_zones[bank] : bank_zones[bank][z] = 2

\* The summary has printed the counts of the home bank.
AreaCountsDone == "summary" \in done

\* The home-bank branches classify_location gives one of the tags.
HomeTagged(tags) ==
    Cardinality({i \in DOMAIN branches :
        /\ branches[i].bank = BOB
        /\ classify_location(branches[i].lat, branches[i].lon) \in tags})

\* C29: the 'Regional' count main prints for the home bank is the number of
\* home-bank branches that classify_location tags 'Regional', the 'Baku area'
\* count is the number tagged 'Baku Center' or 'Greater Baku', and the two
\* counts sum to the number of home-bank branches.
C29_AreaCountsFollowZones ==
    AreaCountsDone =>
        /\ area_counts.regional = HomeTagged({"Regional"})
        /\ area_counts.baku = HomeTagged({"Baku Center", "Greater Baku"})
        /\ area_counts.baku + area_counts.regional = HomeTagged(Zones)

\* What the code does: the two counts sum to the number of home-bank branches
\* and split them by latitude alone.
AreaCountsByLatitude ==
    AreaCountsDone =>
        /\ area_counts.baku + area_counts.regional = HomeTagged(Zones)
        /\ area_counts.baku =
               Cardinality({i \in DOMAIN branches :
                   /\ branches[i].bank = BOB
                   /\ BAKU_GREATER.lat_min <= branches[i].lat
                   /\ branches[i].lat <= BAKU_GREATER.lat_max})

----------------------------------------------------------------------------
(* busDetails.py: fetch_all_bus_details.  Every request to the API either
   fails (a RequestException or a JSONDecodeError, which fetch_bus_list and
   fetch_bus_details turn into None) or returns the decoded JSON body.  A
   detail body is a JSON object, recorded by the id it describes and the
   number of its fields; every entry of the bus list has an 'id' and a
   'number'. *)

MaxFetchBuses == 3

BusIds == {1, 2}

\* The bodies getBusById can return for a bus: an object with fields, or {}.
DetailBodies(bus_id) == [id : {bus_id}, fields : {0, 2}]

\* What fetch_bus_details(bus_id) returns: None, or response.json().
DetailResults(bus_id) ==
    {[ok |-> FALSE, body |-> [id |-> bus_id, fields |-> 0]]}
        \cup [ok : {TRUE}, body : DetailBodies(bus_id)]

\* "if details:" -- None is false, and so is an empty JSON object.
TruthyDetails(details) == details.ok /\ details.body.fields > 0

InitFetch ==
    /\ branches = <<>>
    /\ stops = <<>>
    /\ threshold = WALKING_DISTANCE
    /\ accessibility = <<>>
    /\ gaps = <<>>
    /\ overlap_data = <<>>
    /\ done = {}
    /\ InitRest

fetch_frame ==
    <<branches, stops, threshold, accessibility, gaps, overlap_data, done,
      raw_branches, raw_stops, buses, error, loaded, branch_counts, bank_zones,
      hub_data, bank_avg, bank_medians, head_to_head, summary, area_counts,
      distance>>

\* bus_list = fetch_bus_list(); if not bus_list: return
FetchBusList ==
    /\ fetch.pc = "idle"
    /\ \/ fetch' = [fetch EXCEPT !.pc = "done", !.returned = "None"]
       \/ \E bus_list \in SeqsUpTo(BusIds, MaxFetchBuses) :
              fetch' = IF bus_list = <<>>
                       THEN [fetch EXCEPT !.pc = "done", !.list_fetched = TRUE,
                                          !.returned = "None"]
                       ELSE [fetch EXCEPT !.pc = "loop", !.list_fetched = TRUE,
                                          !.bus_list = bus_list]
    /\ UNCHANGED fetch_frame

\* Variant: whatever fetch_bus_details returned is appended.
FetchBusDetails_KeepsAll ==
    /\ fetch.pc = "loop"
    /\ Len(fetch.requested) < Len(fetch.bus_list)
    /\ LET bus_id == fetch.bus_list[Len(fetch.requested) + 1]
       IN  \E details \in DetailResults(bus_id) :
               fetch' = [fetch EXCEPT
                   !.requested = Append(@, bus_id),
                   !.responses = Append(@, details),
                   !.all_bus_details = Append(@, details.body)]
    /\ UNCHANGED fetch_frame

\* One iteration of "for idx, bus in enumerate(bus_list, 1)".
FetchBusDetails ==
    /\ fetch.pc = "loop"
    /\ Len(fetch.requested) < Len(fetch.bus_list)
    /\ LET bus_id == fetch.bus_list[Len(fetch.requested) + 1]
       IN  \E details \in DetailResults(bus_id) :
               fetch' = [fetch EXCEPT
                   !.requested = Append(@, bus_id),
                   !.responses = Append(@, details),
                   !.all_bus_details =
                       IF TruthyDetails(details) THEN Append(@, details.body) ELSE @]
    /\ UNCHANGED fetch_frame

\* After the loop: json.dump(all_bus_details, f); return all_bus_details
SaveBusDetails ==
    /\ fetch.pc = "loop"
    /\ Len(fetch.requested) = Len(fetch.bus_list)
    /\ fetch' = [fetch EXCEPT !.pc = "done", !.written = TRUE,
                              !.file = fetch.all_bus_details,
                              !.returned = "list",
                              !.value = fetch.all_bus_details]
    /\ UNCHANGED fetch_frame

NextFetch == FetchBusList \/ FetchBusDetails \/ SaveBusDetails

SpecFetch == InitFetch /\ [][NextFetch]_vars

----------------------------------------------------------------------------
(* Properties of fetch_all_bus_details *)

FetchDone == fetch.pc = "done"

\* The bodies of the successful responses, or of the non-empty ones among
\* them, in the order of the requests.
RECURSIVE BodiesOf(_, _)
BodiesOf(responses, truthy_only) ==
    IF responses = <<>> THEN <<>>
    ELSE LET r == responses[Len(responses)]
             before == BodiesOf(SubSeq(responses, 1, Len(responses) - 1), truthy_only)
         IN  IF r.ok /\ (~truthy_only \/ r.body.fields > 0)
             THEN Append(before, r.body) ELSE before

\* One request per bus of the list, in list order, whatever the responses;
\* no bus list, or an empty one: None is returned and no file is written.
RequestsAndNoList ==
    /\ fetch.pc = "loop" =>
           fetch.requested = SubSeq(fetch.bus_list, 1, Len(fetch.requested))
    /\ (FetchDone /\ fetch.bus_list # <<>>) =>
           /\ fetch.requested = fetch.bus_list
           /\ fetch.written /\ fetch.returned = "list"
           /\ fetch.value = fetch.file
    /\ (FetchDone /\ (~fetch.list_fetched \/ fetch.bus_list = <<>>)) =>
           /\ fetch.returned = "None" /\ ~fetch.written
           /\ fetch.requested = <<>>

\* C30 as stated: details are requested once for each bus of the fetched list,
\* in list order; a failed detail request is skipped without stopping the
\* loop, and the saved list is exactly the successfully fetched details in
\* list order; without a bus list, or with an empty one, None is returned and
\* no file is written.
C30_SavedAllFetched ==
    /\ RequestsAndNoList
    /\ (FetchDone /\ fetch.written) => fetch.file = BodiesOf(fetch.responses, FALSE)

\* C30: as above, with the saved list being the successfully fetched details
\* that are not empty, in list order.
C30_SavedNonEmptyFetched ==
    /\ RequestsAndNoList
    /\ (FetchDone /\ fetch.written) => fetch.file = BodiesOf(fetch.responses, TRUE)

\* A run over three buses whose second request failed and whose third
\* succeeded: the file holds the first and the third details.
C30_Witness ==
    /\ FetchDone /\ fetch.written
    /\ Len(fetch.bus_list) = 3
    /\ fetch.responses[1].ok /\ ~fetch.responses[2].ok /\ fetch.responses[3].ok
    /\ Len(fetch.file) = 2

====
